---- MODULE Spec2Model ----
(***************************************************************************)
(* YTCatalog: folder store (shared/storage.ts), content script filter and  *)
(* mutation watcher (content/youtube.ts) and the modal's store handlers    *)
(* (content/modal.ts).                                                     *)
(*                                                                         *)
(* Strings that the code inspects (folder names, playlist ids) are         *)
(* sequences of one-character strings, so that trim(), toLowerCase() and   *)
(* startsWith() are computed.  Folder ids are opaque and are TLA+ strings. *)
(* A JS object used as a map (Record<string, Folder>) is the sequence of   *)
(* its values in insertion order, which is the order of Object.values().   *)
(* A value that may be null is the empty sequence or a one-element         *)
(* sequence, except ids, where NULL and NoId stand for null.               *)
(*                                                                         *)
(* Specifications:                                                         *)
(*   Spec         the operations of the store, from the empty store;       *)
(*   SpecTabs     the operations that name folders, called by the modal of *)
(*                this tab and by other tabs;                              *)
(*   SpecImport   the import of a file, valid or not, into a store that   *)
(*                an earlier session has left;                             *)
(*   SpecDegraded the playlists page and the modal while the extension     *)
(*                context is invalidated under them;                       *)
(*   SpecScroll   the scroll that loads the playlists, a sleep at a time, *)
(*                the host loading cards as it likes;                      *)
(*   SpecFilter   the playlists page with its dropdown, while the modal    *)
(*                and other tabs change the store;                         *)
(*   SpecScan     the first scan of a page, over documents made of the     *)
(*                kinds of cards the scan tells apart;                     *)
(*   SpecWatcher  the mutation observer, its debounce timeout, the         *)
(*                scroll-to-load flag and navigation;                      *)
(*   SpecAsync    the same, a handler running from one await to the next; *)
(*   SpecInject   the injection of the dropdown by init, its callback and  *)
(*                its retries, the host rendering its chip bar, and the    *)
(*                filter on load (SpecInjectFair: every timeout fires);    *)
(*   SpecOverlap  the assignments of the modal, a call of chrome.storage   *)
(*                at a time;                                               *)
(*   SpecExtract  extractPlaylistId over the cards that the host renders; *)
(*   SpecModal    the first scan of a page and the scan of the modal;      *)
(*   SpecRoundTrip the store of SpecTabs with playlists, its export        *)
(*                imported into it.                                        *)
(***************************************************************************)
EXTENDS Integers, Sequences, FiniteSets, TLC

\* ------------------------------------------------------------------------
\* Bounds of the model
\* ------------------------------------------------------------------------
\* folder ids generated in Spec
MaxFolderIds == 3
\* folder entries of an import file
MaxImportFolders == 2
\* folder ids generated in SpecFilter
MaxPageFolderIds == 2
\* flag-clearing timeouts pending at once
MaxFlagTimers == 2
\* debounce timeouts set in a behaviour
MaxTimers == 3
\* cards of a scanned document
MaxCards == 3
\* calls of the content script suspended at one time in SpecAsync
MaxTasks == 2
\* mutation batches of a behaviour of SpecAsync
MaxBatches == 1
\* callbacks of init and calls of injectDropdown pending at one time
MaxCalls == 4
\* chip bars that the host renders in a behaviour
MaxChipBars == 2
\* assignments of the modal in progress at one time
MaxMutations == 2

\* ------------------------------------------------------------------------
\* Values
\* ------------------------------------------------------------------------
NULL == "null"

FOLDER_ID_ALL == "__all__"
FOLDER_ID_UNASSIGNED == "__unassigned__"

PL1 == <<"P", "L", "1">>
PL2 == <<"P", "L", "2">>
OL9 == <<"O", "L", "9">>
UU5 == <<"U", "U", "5">>

\* playlist ids that reach the store
StoreIds == {PL1, PL2, OL9}

\* folder names a user types or an import file carries
NameInputs ==
  { <<>>, <<" ", "\t">>, <<"M", "u">>, <<" ", "m", "u", " ">>, <<"A", "r">> }

\* ------------------------------------------------------------------------
\* String functions
\* ------------------------------------------------------------------------
WhiteSpace == {" ", "\t", "\n"}

LowerChar(c) ==
  CASE c = "A" -> "a"
    [] c = "M" -> "m"
    [] c = "R" -> "r"
    [] c = "U" -> "u"
    [] OTHER -> c

toLowerCase(s) == [i \in 1..Len(s) |-> LowerChar(s[i])]

RECURSIVE trimStart(_)
trimStart(s) ==
  IF s # <<>> /\ Head(s) \in WhiteSpace THEN trimStart(Tail(s)) ELSE s

RECURSIVE trimEnd(_)
trimEnd(s) ==
  IF s # <<>> /\ s[Len(s)] \in WhiteSpace
  THEN trimEnd(SubSeq(s, 1, Len(s) - 1))
  ELSE s

trim(s) == trimEnd(trimStart(s))

startsWith(s, prefix) ==
  Len(s) >= Len(prefix) /\ SubSeq(s, 1, Len(prefix)) = prefix

\* ------------------------------------------------------------------------
\* Array and object helpers
\* ------------------------------------------------------------------------
Range(s) == {s[i] : i \in 1..Len(s)}

\* Array.prototype.indexOf, 0 standing for -1
indexOf(s, x) ==
  IF \E i \in 1..Len(s) : s[i] = x
  THEN CHOOSE i \in 1..Len(s) : s[i] = x /\ \A j \in 1..(i - 1) : s[j] # x
  ELSE 0

\* splice(index, 1)
splice1(s, i) == SubSeq(s, 1, i - 1) \o SubSeq(s, i + 1, Len(s))

includes(s, x) == \E i \in 1..Len(s) : s[i] = x

\* position of key id in the object fs, 0 when absent
keyIndex(fs, id) ==
  IF \E i \in 1..Len(fs) : fs[i].id = id
  THEN CHOOSE i \in 1..Len(fs) : fs[i].id = id
  ELSE 0

hasKey(fs, id) == keyIndex(fs, id) # 0

\* fs[id] = folder : an existing key keeps its place, a new key goes last
putKey(fs, id, folder) ==
  IF hasKey(fs, id)
  THEN [fs EXCEPT ![keyIndex(fs, id)] = folder]
  ELSE Append(fs, folder)

\* delete fs[id]
deleteKey(fs, id) ==
  IF hasKey(fs, id) THEN splice1(fs, keyIndex(fs, id)) ELSE fs

generateId(n) == "folder_" \o ToString(n)

\* ------------------------------------------------------------------------
\* Map<K, V> as the sequence of its entries <<key, value>> in insertion order
\* ------------------------------------------------------------------------
mapIndex(m, k) ==
  IF \E i \in 1..Len(m) : m[i][1] = k
  THEN CHOOSE i \in 1..Len(m) : m[i][1] = k
  ELSE 0

mapHas(m, k) == mapIndex(m, k) # 0

mapGet(m, k) == m[mapIndex(m, k)][2]

\* Map.set: an existing key keeps its place and takes the new value
mapSet(m, k, v) ==
  IF mapHas(m, k)
  THEN [m EXCEPT ![mapIndex(m, k)] = <<k, v>>]
  ELSE Append(m, <<k, v>>)

\* ------------------------------------------------------------------------
\* FolderStorage (shared/storage.ts), as functions of the stored folder map
\* ------------------------------------------------------------------------
Folder(id, name, playlistIds) ==
  [id |-> id, name |-> name, playlistIds |-> playlistIds]

\* mutant: the comparison forgets toLowerCase
folderNameExists_CaseSensitive(fs, name) ==
  \E i \in 1..Len(fs) : fs[i].name = trim(name)

folderNameExists(fs, name) ==
  LET normalizedName == toLowerCase(trim(name))
  IN  \E i \in 1..Len(fs) : toLowerCase(fs[i].name) = normalizedName

\* result of createFolder: the CreateFolderResult and the folder map saved
createFolder(fs, name, n) ==
  LET trimmedName == trim(name)
      id == generateId(n)
  IN  IF trimmedName = <<>>
      THEN [success |-> FALSE, error |-> "empty_name", folders |-> fs, n |-> n]
      ELSE IF folderNameExists(fs, trimmedName)
      THEN [success |-> FALSE, error |-> "duplicate_name", folders |-> fs, n |-> n]
      ELSE [success |-> TRUE, error |-> NULL,
            folders |-> putKey(fs, id, Folder(id, trimmedName, <<>>)),
            n |-> n + 1]

\* mutant: the selection is left as it was
deleteFolder_KeepSelection(fs, sel, id) ==
  [folders |-> deleteKey(fs, id), selectedFolderId |-> sel]

\* deleteFolder: the folder map saved and the selection left in the store
deleteFolder(fs, sel, id) ==
  [folders |-> deleteKey(fs, id),
   selectedFolderId |-> IF sel = id THEN NULL ELSE sel]

renameFolder(fs, id, newName) ==
  IF hasKey(fs, id)
  THEN [fs EXCEPT ![keyIndex(fs, id)].name = newName]
  ELSE fs

\* the loop of addPlaylistToFolder: one occurrence leaves every folder
removeFromEach(fs, playlistId) ==
  [i \in 1..Len(fs) |->
     LET index == indexOf(fs[i].playlistIds, playlistId)
     IN  IF index > 0
         THEN [fs[i] EXCEPT !.playlistIds = splice1(fs[i].playlistIds, index)]
         ELSE fs[i]]

\* mutant: the playlist is not taken out of the folder that holds it
addPlaylistToFolder_NoRemove(fs, folderId, playlistId) ==
  IF hasKey(fs, folderId)
  THEN [fs EXCEPT ![keyIndex(fs, folderId)].playlistIds = Append(@, playlistId)]
  ELSE fs

\* mutant: the playlist is left where it is when the target is missing
addPlaylistToFolder_KeepWhenMissing(fs, folderId, playlistId) ==
  IF hasKey(fs, folderId)
  THEN LET removed == removeFromEach(fs, playlistId)
       IN  [removed EXCEPT ![keyIndex(removed, folderId)].playlistIds =
              Append(@, playlistId)]
  ELSE fs

addPlaylistToFolder(fs, folderId, playlistId) ==
  LET removed == removeFromEach(fs, playlistId)
  IN  IF hasKey(removed, folderId)
      THEN [removed EXCEPT ![keyIndex(removed, folderId)].playlistIds =
              Append(@, playlistId)]
      ELSE removed

\* mutant: only the first folder is searched
removePlaylistFromFolder_FirstFolder(fs, playlistId) ==
  IF fs # <<>> /\ includes(fs[1].playlistIds, playlistId)
  THEN [fs EXCEPT ![1].playlistIds = splice1(@, indexOf(@, playlistId))]
  ELSE fs

\* the loop of removePlaylistFromFolder: it stops at the first folder found
removePlaylistFromFolder(fs, playlistId) ==
  IF \E i \in 1..Len(fs) : includes(fs[i].playlistIds, playlistId)
  THEN LET i == CHOOSE k \in 1..Len(fs) :
                  /\ includes(fs[k].playlistIds, playlistId)
                  /\ \A j \in 1..(k - 1) : ~includes(fs[j].playlistIds, playlistId)
       IN  [fs EXCEPT ![i].playlistIds = splice1(@, indexOf(@, playlistId))]
  ELSE fs

\* ---- importFolders ----
\* mutant: an id that is already assigned keeps its folder (first wins)
RECURSIVE assignAll_FirstWins(_, _, _)
assignAll_FirstWins(m, playlistIds, folderId) ==
  IF playlistIds = <<>> THEN m
  ELSE assignAll_FirstWins(
         IF mapHas(m, Head(playlistIds)) THEN m
         ELSE mapSet(m, Head(playlistIds), folderId),
         Tail(playlistIds), folderId)

RECURSIVE assignAll(_, _, _)
assignAll(m, playlistIds, folderId) ==
  IF playlistIds = <<>> THEN m
  ELSE assignAll(mapSet(m, Head(playlistIds), folderId), Tail(playlistIds), folderId)

\* first pass: the assignments of the existing folders
RECURSIVE collectAssignments(_, _)
collectAssignments(m, fs) ==
  IF fs = <<>> THEN m
  ELSE collectAssignments(assignAll(m, Head(fs).playlistIds, Head(fs).id), Tail(fs))

\* mutant: the names are kept as they are written
RECURSIVE collectNames_CaseSensitive(_, _)
collectNames_CaseSensitive(m, fs) ==
  IF fs = <<>> THEN m
  ELSE collectNames_CaseSensitive(mapSet(m, Head(fs).name, Head(fs).id), Tail(fs))

\* existing folder names (lowercase) to their ids
RECURSIVE collectNames(_, _)
collectNames(m, fs) ==
  IF fs = <<>> THEN m
  ELSE collectNames(mapSet(m, toLowerCase(Head(fs).name), Head(fs).id), Tail(fs))

\* the loop over the imported folders
RECURSIVE processImported(_, _)
processImported(st, importedFolders) ==
  IF importedFolders = <<>> THEN st
  ELSE
    LET importedFolder == Head(importedFolders)
        folderName == trim(importedFolder.name)
        key == toLowerCase(folderName)
        found == mapHas(st.existingNameToId, key)
        folderId == IF found THEN mapGet(st.existingNameToId, key)
                    ELSE generateId(st.n)
    IN  processImported(
          [existingFolders |->
             putKey(st.existingFolders, folderId, Folder(folderId, folderName, <<>>)),
           existingNameToId |->
             IF found THEN st.existingNameToId
             ELSE mapSet(st.existingNameToId, key, folderId),
           playlistAssignments |->
             assignAll(st.playlistAssignments, importedFolder.playlistIds, folderId),
           n |-> IF found THEN st.n ELSE st.n + 1,
           foldersImported |-> st.foldersImported + 1],
          Tail(importedFolders))

\* second pass: every playlistIds array is rebuilt from the final assignments
RECURSIVE rebuild(_, _)
rebuild(fs, assignments) ==
  IF assignments = <<>> THEN fs
  ELSE
    LET playlistId == Head(assignments)[1]
        folderId == Head(assignments)[2]
    IN  rebuild(
          IF hasKey(fs, folderId)
          THEN [fs EXCEPT ![keyIndex(fs, folderId)].playlistIds = Append(@, playlistId)]
          ELSE fs,
          Tail(assignments))

clearPlaylistIds(fs) == [i \in 1..Len(fs) |-> [fs[i] EXCEPT !.playlistIds = <<>>]]

importFolders(fs, data, n) ==
  LET st == processImported(
              [existingFolders |-> fs,
               existingNameToId |-> collectNames(<<>>, fs),
               playlistAssignments |-> collectAssignments(<<>>, fs),
               n |-> n,
               foldersImported |-> 0],
              data.folders)
  IN  [success |-> TRUE,
       foldersImported |-> st.foldersImported,
       folders |-> rebuild(clearPlaylistIds(st.existingFolders), st.playlistAssignments),
       n |-> st.n]

\* ---- validateImportData ----
\* A value that JSON.parse returns is [t, n, chars, items, fields]: t is
\* what the code can tell about it (typeof, Array.isArray, null), n the
\* value of a number, chars the characters of a string, items the elements
\* of an array, fields the entries <<key, value>> of an object.
JValue(t, n, chars, items, fields) ==
  [t |-> t, n |-> n, chars |-> chars, items |-> items, fields |-> fields]

JUndefined == JValue("undefined", 0, <<>>, <<>>, <<>>)
JNull == JValue("null", 0, <<>>, <<>>, <<>>)
JNumber(n) == JValue("number", n, <<>>, <<>>, <<>>)
JString(s) == JValue("string", 0, s, <<>>, <<>>)
JArray(a) == JValue("array", 0, <<>>, a, <<>>)
JObject(fields) == JValue("object", 0, <<>>, <<>>, fields)

\* obj[key], undefined when obj has no such property
field(obj, key) ==
  IF mapHas(obj.fields, key) THEN mapGet(obj.fields, key) ELSE JUndefined

\* the characters of s as one string
RECURSIVE str(_)
str(s) == IF s = <<>> THEN "" ELSE Head(s) \o str(Tail(s))

NoError == <<>>

\* the first element of ids that is no string, 0 when there is none
firstNonString(ids) ==
  IF \E k \in 1..Len(ids) : ids[k].t # "string"
  THEN CHOOSE k \in 1..Len(ids) :
         ids[k].t # "string" /\ \A j \in 1..(k - 1) : ids[j].t = "string"
  ELSE 0

\* mutant: a name of white space passes
validateFolder_BlankName(folder, i) ==
  IF folder.t \notin {"object", "array"}
  THEN <<"Invalid folder at index " \o ToString(i) \o ": expected object">>
  ELSE IF field(folder, "name").t # "string"
  THEN <<"Invalid folder at index " \o ToString(i) \o ": missing or empty name">>
  ELSE IF field(folder, "playlistIds").t # "array"
  THEN <<"Invalid folder \"" \o str(field(folder, "name").chars)
           \o "\": missing or invalid playlistIds array">>
  ELSE IF firstNonString(field(folder, "playlistIds").items) # 0
  THEN <<"Invalid folder \"" \o str(field(folder, "name").chars)
           \o "\": playlistIds must be strings">>
  ELSE NoError

\* the body of the loop of validateImportData, for obj.folders[i]; typeof
\* is 'object' for an object and for an array
validateFolder(folder, i) ==
  IF folder.t \notin {"object", "array"}
  THEN <<"Invalid folder at index " \o ToString(i) \o ": expected object">>
  ELSE IF \/ field(folder, "name").t # "string"
          \/ trim(field(folder, "name").chars) = <<>>
  THEN <<"Invalid folder at index " \o ToString(i) \o ": missing or empty name">>
  ELSE IF field(folder, "playlistIds").t # "array"
  THEN <<"Invalid folder \"" \o str(field(folder, "name").chars)
           \o "\": missing or invalid playlistIds array">>
  ELSE IF firstNonString(field(folder, "playlistIds").items) # 0
  THEN <<"Invalid folder \"" \o str(field(folder, "name").chars)
           \o "\": playlistIds must be strings">>
  ELSE NoError

\* the loop: the error of the first entry that has one
RECURSIVE validateFolders(_, _)
validateFolders(entries, i) ==
  IF i >= Len(entries) THEN NoError
  ELSE IF validateFolder(entries[i + 1], i) # NoError
  THEN validateFolder(entries[i + 1], i)
  ELSE validateFolders(entries, i + 1)

\* the error message, NoError for null
validateImportData(data) ==
  IF data.t \notin {"object", "array"}
  THEN <<"Invalid file format: expected JSON object">>
  ELSE IF field(data, "version").t # "number"
  THEN <<"Invalid file format: missing or invalid version field">>
  ELSE IF field(data, "folders").t # "array"
  THEN <<"Invalid file format: missing or invalid folders array">>
  ELSE validateFolders(field(data, "folders").items, 0)

\* data as ExportData, for data that validateImportData accepts
asExportData(data) ==
  [version |-> field(data, "version").n,
   folders |->
     [i \in 1..Len(field(data, "folders").items) |->
        LET folder == field(data, "folders").items[i]
        IN  [name |-> field(folder, "name").chars,
             playlistIds |->
               [k \in 1..Len(field(folder, "playlistIds").items) |->
                  field(folder, "playlistIds").items[k].chars]]]]

\* ------------------------------------------------------------------------
\* The host page.  The document is [grid, contents, cards]:
\*   grid      querySelector finds the playlists grid container;
\*   contents  the grid container has its #contents scroll container;
\*   cards     the playlist cards of the document, in document order.
\* A card is [classId, hrefId, title, inGrid, display]:
\*   classId  the token after "content-id-" in the lockup div's class, NoId
\*            when the card has no such div;
\*   hrefId   the list= token of the card's /playlist?list= link, NoId when
\*            it has no such link;
\*   title    the title text of the card, NoTitle when it has none;
\*   inGrid   the card is inside the playlists grid container;
\*   display  the card's style.display, "" or "none".
\* A node is named by its position in the document.
\* ------------------------------------------------------------------------
NoId == <<>>
NoTitle == <<>>
UnknownPlaylist == <<"Unknown Playlist">>

Card(classId, hrefId, title, inGrid) ==
  [classId |-> classId, hrefId |-> hrefId, title |-> title,
   inGrid |-> inGrid, display |-> ""]

Document(grid, contents, cards) ==
  [grid |-> grid, contents |-> contents, cards |-> cards]

userPlaylistPrefixes ==
  << <<"P", "L">>, <<"F", "L">>, <<"L", "L">>, <<"W", "L">>, <<"O", "L">>, <<"R", "D">> >>

isUserPlaylistId(id) ==
  \E i \in 1..Len(userPlaylistPrefixes) : startsWith(id, userPlaylistPrefixes[i])

\* mutant: the link is tried before the class
extractPlaylistId_HrefFirst(card) ==
  IF card.hrefId # NoId /\ isUserPlaylistId(card.hrefId) THEN card.hrefId
  ELSE IF card.classId # NoId /\ isUserPlaylistId(card.classId) THEN card.classId
  ELSE NoId

\* the two methods, on the ids that the class and the link of the card give
extractPlaylistId(card) ==
  IF card.classId # NoId /\ isUserPlaylistId(card.classId) THEN card.classId
  ELSE IF card.hrefId # NoId /\ isUserPlaylistId(card.hrefId) THEN card.hrefId
  ELSE NoId

\* ------------------------------------------------------------------------
\* The extraction of the id of a card (content/youtube.ts).  A node is a
\* card as the host renders it: the class attribute of its lockup div and
\* the href of its link, NoAttr when the card has no div or no link.
\* ------------------------------------------------------------------------
NoAttr == <<>>

Node(className, href) == [className |-> className, href |-> href]

\* the characters of [A-Za-z0-9_-]
IdChars ==
  {"A", "B", "C", "D", "E", "F", "G", "H", "I", "J", "K", "L", "M", "N", "O",
   "P", "Q", "R", "S", "T", "U", "V", "W", "X", "Y", "Z",
   "a", "b", "c", "d", "e", "f", "g", "h", "i", "j", "k", "l", "m", "n", "o",
   "p", "q", "r", "s", "t", "u", "v", "w", "x", "y", "z",
   "0", "1", "2", "3", "4", "5", "6", "7", "8", "9", "_", "-"}

\* s has pat at position i
matchAt(s, i, pat) ==
  /\ i + Len(pat) - 1 <= Len(s)
  /\ \A k \in 1..Len(pat) : s[i + k - 1] = pat[k]

\* the attribute selector [attr*="pat"]
contains(s, pat) == \E i \in 1..Len(s) : matchAt(s, i, pat)

\* ([A-Za-z0-9_-]+) from position j of s on
RECURSIVE idRun(_, _)
idRun(s, j) ==
  IF j <= Len(s) /\ s[j] \in IdChars THEN <<s[j]>> \o idRun(s, j + 1) ELSE <<>>

\* s.match(/head([A-Za-z0-9_-]+)/)[1] for the leftmost match, head being one
\* of heads; NoId when there is no match
capture(s, heads) ==
  LET starts == {i \in 1..Len(s) :
                   \E h \in heads : /\ matchAt(s, i, h)
                                     /\ i + Len(h) <= Len(s)
                                     /\ s[i + Len(h)] \in IdChars}
  IN  IF starts = {} THEN NoId
      ELSE LET i == CHOOSE k \in starts : \A m \in starts : k <= m
               h == CHOOSE g \in heads : matchAt(s, i, g)
           IN  idRun(s, i + Len(h))

ContentId == <<"c", "o", "n", "t", "e", "n", "t", "-", "i", "d", "-">>

PlaylistPath == <<"/", "p", "l", "a", "y", "l", "i", "s", "t">>

ListParam(c) == <<c, "l", "i", "s", "t", "=">>

\* method 1: the lockup div with content-id- in its class, and
\* PLAYLIST_ID_REGEX on its className
classIdOf(className) ==
  IF contains(className, ContentId) THEN capture(className, {ContentId})
  ELSE NoId

\* method 2: the link with /playlist?list= in its href, and
\* /[?&]list=([A-Za-z0-9_-]+)/ on its href
hrefIdOf(href) ==
  IF contains(href, PlaylistPath \o ListParam("?"))
  THEN capture(href, {ListParam("?"), ListParam("&")})
  ELSE NoId

\* the card of a node, as the scans see it
cardOf(node) == Card(classIdOf(node.className), hrefIdOf(node.href), NoTitle, TRUE)

\* the class attributes and the links of the cards: a playlist id, an id
\* followed by another class, the id of a channel's uploads, no id after
\* content-id-, an empty content-id- before a full one, a video id
ClassNames ==
  { NoAttr,
    ContentId \o PL1,
    <<"x", " ">> \o ContentId \o PL2 \o <<" ", "y">>,
    ContentId \o UU5,
    ContentId,
    ContentId \o OL9,
    ContentId \o <<" ">> \o ContentId \o PL1,
    ContentId \o <<"d", "Q", "w">> }

Hrefs ==
  { NoAttr,
    PlaylistPath \o ListParam("?") \o PL1,
    PlaylistPath \o ListParam("?") \o PL2 \o <<"&", "i", "=", "1">>,
    PlaylistPath \o ListParam("?") \o UU5,
    PlaylistPath \o ListParam("?"),
    <<"/", "w", "a", "t", "c", "h", "?", "v", "=", "d">> \o ListParam("&") \o PL1,
    PlaylistPath \o ListParam("?") \o OL9,
    PlaylistPath \o ListParam("?") \o <<".">> \o ListParam("&") \o PL2 }

\* searchRoot.querySelectorAll(playlistCard): the nodes, in document order;
\* grid says that the search root is the grid container, not the document
RECURSIVE selectFrom(_, _, _)
selectFrom(cards, i, grid) ==
  IF i > Len(cards) THEN <<>>
  ELSE IF grid => cards[i].inGrid
       THEN <<i>> \o selectFrom(cards, i + 1, grid)
       ELSE selectFrom(cards, i + 1, grid)

\* const searchRoot = gridContainer || document
playlistCards(d) == selectFrom(d.cards, 1, d.grid)

\* the thumbnail and the video count are read like the title and are left out
ScrapedPlaylist(id, card, node) ==
  [id |-> id,
   title |-> trim(IF card.title = NoTitle THEN UnknownPlaylist ELSE card.title),
   element |-> node]

\* mutant: the scan forgets the ids it has seen
RECURSIVE scrapeLoop_NoSeenIds(_, _, _, _)
scrapeLoop_NoSeenIds(cards, nodes, playlists, seenIds) ==
  IF nodes = <<>> THEN playlists
  ELSE
    LET node == Head(nodes)
        id == extractPlaylistId(cards[node])
    IN  IF id = NoId
        THEN scrapeLoop_NoSeenIds(cards, Tail(nodes), playlists, seenIds)
        ELSE scrapeLoop_NoSeenIds(cards, Tail(nodes),
                        Append(playlists, ScrapedPlaylist(id, cards[node], node)),
                        seenIds)

\* the forEach of scrapeAllPlaylists over the selected nodes
RECURSIVE scrapeLoop(_, _, _, _)
scrapeLoop(cards, nodes, playlists, seenIds) ==
  IF nodes = <<>> THEN playlists
  ELSE
    LET node == Head(nodes)
        id == extractPlaylistId(cards[node])
    IN  IF id = NoId \/ id \in seenIds
        THEN scrapeLoop(cards, Tail(nodes), playlists, seenIds)
        ELSE scrapeLoop(cards, Tail(nodes),
                        Append(playlists, ScrapedPlaylist(id, cards[node], node)),
                        seenIds \cup {id})

scrapeAllPlaylists(d) == scrapeLoop(d.cards, playlistCards(d), <<>>, {})

\* ------------------------------------------------------------------------
\* Folder lookup and the filter (content/youtube.ts)
\* ------------------------------------------------------------------------
folderIds(fs) == {fs[i].id : i \in 1..Len(fs)}

\* mutant: only the first folder is looked at
getFolderIdForPlaylist_FirstFolder(playlistId, fs) ==
  IF fs # <<>> /\ includes(fs[1].playlistIds, playlistId) THEN fs[1].id ELSE NULL

getFolderIdForPlaylist(playlistId, fs) ==
  IF \E i \in 1..Len(fs) : includes(fs[i].playlistIds, playlistId)
  THEN LET i == CHOOSE k \in 1..Len(fs) :
                  /\ includes(fs[k].playlistIds, playlistId)
                  /\ \A j \in 1..(k - 1) : ~includes(fs[j].playlistIds, playlistId)
       IN  fs[i].id
  ELSE NULL

\* mutant: a missing folder is never noticed
selectionIsStale_Never(folderId, fs) == FALSE

\* the deleted-folder check of applyFolderFilter
selectionIsStale(folderId, fs) ==
  folderId # FOLDER_ID_ALL /\ folderId # FOLDER_ID_UNASSIGNED /\ ~hasKey(fs, folderId)

\* mutant: a folder selection also shows the playlists of no folder
show_AlsoUnassigned(playlistId, folderId, fs) ==
  LET playlistFolderId == getFolderIdForPlaylist(playlistId, fs)
  IN  IF folderId = FOLDER_ID_ALL THEN TRUE
      ELSE IF folderId = FOLDER_ID_UNASSIGNED THEN playlistFolderId = NULL
      ELSE playlistFolderId = folderId \/ playlistFolderId = NULL

show(playlistId, folderId, fs) ==
  LET playlistFolderId == getFolderIdForPlaylist(playlistId, fs)
  IN  IF folderId = FOLDER_ID_ALL THEN TRUE
      ELSE IF folderId = FOLDER_ID_UNASSIGNED THEN playlistFolderId = NULL
      ELSE playlistFolderId = folderId

\* mutant: an element that is not shown has its display switched
RECURSIVE setDisplay_Toggle(_, _, _, _)
setDisplay_Toggle(cards, playlists, folderId, fs) ==
  IF playlists = <<>> THEN cards
  ELSE
    LET playlist == Head(playlists)
        d == IF show(playlist.id, folderId, fs) THEN ""
             ELSE IF cards[playlist.element].display = "none" THEN ""
             ELSE "none"
    IN  setDisplay_Toggle([cards EXCEPT ![playlist.element].display = d],
                          Tail(playlists), folderId, fs)

\* the loop of applyFolderFilter: style.display of every cached element
RECURSIVE setDisplay(_, _, _, _)
setDisplay(cards, playlists, folderId, fs) ==
  IF playlists = <<>> THEN cards
  ELSE
    LET playlist == Head(playlists)
        d == IF show(playlist.id, folderId, fs) THEN "" ELSE "none"
    IN  setDisplay([cards EXCEPT ![playlist.element].display = d],
                   Tail(playlists), folderId, fs)

\* ------------------------------------------------------------------------
\* The dropdown (content/youtube.ts).  dropdownElement is NoElement or
\* <<[label, menu]>>; the menu is [items, active]: the folder ids of its
\* folder buttons and the entry marked active (the counts are left out).
\* ------------------------------------------------------------------------
NoElement == <<>>

getFolderLabel(folderId, fs) ==
  IF folderId = NULL \/ folderId = FOLDER_ID_ALL THEN <<"All Folders">>
  ELSE IF folderId = FOLDER_ID_UNASSIGNED THEN <<"Unassigned">>
  ELSE IF hasKey(fs, folderId) THEN fs[keyIndex(fs, folderId)].name
  ELSE <<"All Folders">>

buildMenuItems(fs, selectedId) ==
  [items |-> folderIds(fs),
   active |-> IF selectedId = NULL \/ selectedId = FOLDER_ID_ALL THEN FOLDER_ID_ALL
              ELSE IF selectedId = FOLDER_ID_UNASSIGNED \/ hasKey(fs, selectedId)
              THEN selectedId
              ELSE NULL]

createDropdown(fs, selectedId) ==
  <<[label |-> getFolderLabel(selectedId, fs), menu |-> buildMenuItems(fs, selectedId)]>>

updateDropdownLabel(dd, fs, selectedId) ==
  IF dd = NoElement THEN dd
  ELSE <<[dd[1] EXCEPT !.label = getFolderLabel(selectedId, fs)]>>

refreshDropdownMenu(dd, fs, selectedId) ==
  IF dd = NoElement THEN dd
  ELSE <<[dd[1] EXCEPT !.menu = buildMenuItems(fs, selectedId)]>>

\* mutant: every pass resets the stored selection
applyFolderFilter_AlwaysResets(folderId, playlists, fs, selectedId, d, dd) ==
  LET stale == selectionIsStale(folderId, fs)
      effective == IF stale THEN FOLDER_ID_ALL ELSE folderId
  IN  [selectedFolderId |-> NULL,
       folderId |-> effective,
       dropdownElement |->
         IF stale
         THEN refreshDropdownMenu(updateDropdownLabel(dd, fs, NULL), fs, NULL)
         ELSE dd,
       labelUpdates |-> IF stale THEN 1 ELSE 0,
       menuRefreshes |-> IF stale THEN 1 ELSE 0,
       dom |-> [d EXCEPT !.cards = setDisplay(d.cards, playlists, effective, fs)]]

\* applyFolderFilter once the playlists are cached: what it leaves in the
\* store, in the dropdown and in the document, and the refreshes it made
applyFolderFilter(folderId, playlists, fs, selectedId, d, dd) ==
  LET stale == selectionIsStale(folderId, fs)
      effective == IF stale THEN FOLDER_ID_ALL ELSE folderId
      sel == IF stale THEN NULL ELSE selectedId
  IN  [selectedFolderId |-> sel,
       folderId |-> effective,
       dropdownElement |->
         IF stale
         THEN refreshDropdownMenu(updateDropdownLabel(dd, fs, sel), fs, sel)
         ELSE dd,
       labelUpdates |-> IF stale THEN 1 ELSE 0,
       menuRefreshes |-> IF stale THEN 1 ELSE 0,
       dom |-> [d EXCEPT !.cards = setDisplay(d.cards, playlists, effective, fs)]]

\* ------------------------------------------------------------------------
\* The mutation watcher (content/youtube.ts).  A pending debounce timeout is
\* [id, after]: after counts the flag-clearing timeouts (100 ms) that were
\* pending when it was set (400 ms) and so fire before it.
\* ------------------------------------------------------------------------
\* mutant: the timeout stays pending
clearTimeout_Noop(ts, handle) == ts

clearTimeout(ts, handle) == {t \in ts : t.id # handle}

\* mutant: the pending timeout is not cleared
handlePlaylistMutations_NoClear(ts, handle, id, pendingFlags) ==
  [timers |-> ts \cup {[id |-> id, after |-> pendingFlags]},
   mutationDebounceTimer |-> id]

\* the synchronous part of handlePlaylistMutations: the timeouts pending
\* afterwards and the handle kept
handlePlaylistMutations(ts, handle, id, pendingFlags) ==
  [timers |-> (IF handle # 0 THEN clearTimeout(ts, handle) ELSE ts)
                \cup {[id |-> id, after |-> pendingFlags]},
   mutationDebounceTimer |-> id]

stopPlaylistObserver(ts, handle) ==
  [playlistObserver |-> FALSE,
   timers |-> IF handle # 0 THEN clearTimeout(ts, handle) ELSE ts,
   mutationDebounceTimer |-> 0]

startPlaylistObserver(d, ts, handle) ==
  [stopPlaylistObserver(ts, handle) EXCEPT !.playlistObserver = d.grid /\ d.contents]

\* ------------------------------------------------------------------------
\* State
\* ------------------------------------------------------------------------
VARIABLES
  folders,            \* chrome.storage.local "folders": Object.values order
  selectedFolderId,   \* chrome.storage.local "selectedFolderId", NULL when absent
  nextId,             \* number of folder ids generated so far, plus one
  cachedFolders,      \* the cachedFolders of the modal of this tab
  storageAvailable,   \* chrome.storage.local is defined in this tab
  dom,                \* the host document: [grid, contents, cards]
  cachedPlaylists,    \* NoCache, or <<the last scan>>
  dropdownElement,    \* NoElement, or <<[label, menu]>>
  initTimer,          \* TRUE while the setTimeout(500) of init() is pending
  isScrollingToLoad,  \* flag set while the content script scrolls to load
  flagTimers,         \* number of pending setTimeout(100) that clear the flag
  playlistObserver,   \* TRUE while a MutationObserver is attached
  mutationDebounceTimer, \* the handle kept by handlePlaylistMutations, 0 for null
  timers,             \* the pending debounce timeouts: [id, after]
  nextTimer,          \* number of debounce timeouts set so far, plus one
  loading,            \* NotLoading, or <<[op, folderId]>>: the handler op
                      \* waits in loadAndScrapeAllPlaylists
  window,             \* bookkeeping of the current debounce window
  scrollPos,          \* where the page is scrolled to: [window, container]
  scrolling,          \* NotScrolling, or <<the locals of
                      \* scrollToLoadAllPlaylists>> while it sleeps
  tasks,              \* the calls suspended at an await and the pending
                      \* setTimeout callbacks of init, oldest first
  isInjecting,        \* the lock of injectDropdown
  dropdownInjected,   \* the flag that injectDropdown and init keep
  location,           \* the page of window.location.href
  chipBar,            \* the chip bar of the document, 0 when it has none
  dropdowns,          \* number of #ytcatalog-folder-dropdown in the document
  last                \* the operation that has just completed, with its
                      \* arguments, its result and the state it started from,
                      \* until its caller has taken the result; Idle otherwise

storeVars ==
  <<folders, selectedFolderId, nextId, cachedFolders, storageAvailable>>
pageVars == <<dom, cachedPlaylists, dropdownElement, initTimer>>
watchVars ==
  <<isScrollingToLoad, flagTimers, playlistObserver, mutationDebounceTimer,
    timers, nextTimer, loading, window>>
scrollVars == <<scrollPos, scrolling>>
asyncVars ==
  <<tasks, isInjecting, dropdownInjected, location, chipBar, dropdowns>>
vars == <<storeVars, pageVars, watchVars, scrollVars, asyncVars, last>>

\* window.scrollY and container.scrollTop of a page scrolled to its top
Top == [window |-> 0, container |-> 0]

NotScrolling == <<>>

Idle == [op |-> "idle"]

\* ---- the accessors of FolderStorage: without chrome.storage.local they
\* warn and return ----
isStorageAvailable == storageAvailable

\* getFolders(): the stored map, the empty map without the storage
getFolders == IF isStorageAvailable THEN folders ELSE <<>>

\* mutant: the map is written without the check
saveFolders_NoCheck(fs) == fs

\* saveFolders(fs): the stored map afterwards
saveFolders(fs) == IF isStorageAvailable THEN fs ELSE folders

\* getFolders() once saveFolders(fs) has returned
reload(fs) == IF isStorageAvailable THEN fs ELSE <<>>

\* getSelectedFolderId(): null without the storage
getSelectedFolderId == IF isStorageAvailable THEN selectedFolderId ELSE NULL

\* setSelectedFolderId(id): the stored selection afterwards, NULL for the
\* key removed
setSelectedFolderId(id) == IF isStorageAvailable THEN id ELSE selectedFolderId

\* getSelectedFolderId() once setSelectedFolderId(id) has returned
reselect(id) == IF isStorageAvailable THEN id ELSE NULL

NoCache == <<>>
NotLoading == <<>>

\* a debounce window: it opens with the first mutation batch that finds no
\* timeout pending and closes when no timeout is pending any more, because
\* the timeout has fired or because the observer was stopped
NoWindow ==
  [state |-> "none", batches |-> 0, handlers |-> 0, rescans |-> 0, skips |-> 0]

IssuedIds == {generateId(n) : n \in 1..(nextId - 1)}

\* the ids that are in some folder
assignedIds(fs) == UNION {Range(fs[i].playlistIds) : i \in 1..Len(fs)}

\* the export files offered to importFolders: they pass validateImportData
ImportNames == { <<" ", "m", "u", " ">>, <<"A", "r">> }

ImportIdLists == { <<>>, <<PL1>>, <<PL2, PL1>> }

ExportFolders == [name : ImportNames, playlistIds : ImportIdLists]

ImportInputs ==
  {[version |-> 1, folders |-> fl] :
     fl \in UNION {[1..k -> ExportFolders] : k \in 0..MaxImportFolders}}

\* ------------------------------------------------------------------------
\* Store operations, each run to completion.  The store is shared by every
\* tab: an operation is called by a handler of this tab's modal (modal =
\* TRUE), which reads cachedFolders and reloads it afterwards, or by another
\* caller (the dropdown, the modal of another tab), which leaves the
\* cachedFolders of this tab's modal as they are.
\* ------------------------------------------------------------------------
\* handleNewFolderInModal, handleNewFolder: createFolder
CreateFolder(name, modal) ==
  /\ last = Idle
  /\ nextId <= MaxFolderIds
  /\ \E r \in {createFolder(getFolders, name, nextId)} :
      /\ folders' = saveFolders(r.folders)
      /\ nextId' = r.n
      /\ cachedFolders' = IF modal /\ r.success THEN reload(r.folders)
                          ELSE cachedFolders
      /\ last' = [op |-> "createFolder", name |-> name, result |-> r,
                  pre |-> getFolders]
  /\ UNCHANGED <<selectedFolderId, storageAvailable, pageVars, watchVars>>
  /\ UNCHANGED <<scrollVars, asyncVars>>

\* handleDeleteFolderInModal, once the user has confirmed: deleteFolder
DeleteFolder(id, modal) ==
  /\ last = Idle
  /\ modal => hasKey(cachedFolders, id)
  /\ \E r \in {deleteFolder(getFolders, getSelectedFolderId, id)} :
      /\ folders' = saveFolders(r.folders)
      /\ selectedFolderId' = setSelectedFolderId(r.selectedFolderId)
      /\ cachedFolders' = IF modal THEN reload(r.folders) ELSE cachedFolders
      /\ last' = [op |-> "deleteFolder", id |-> id, pre |-> getFolders,
                  preSelected |-> getSelectedFolderId]
  /\ UNCHANGED <<nextId, storageAvailable, pageVars, watchVars>>
  /\ UNCHANGED <<scrollVars, asyncVars>>

\* handleRenameFolderInModal: the modal's checks against the folder of its
\* cachedFolders, then renameFolder and the reload of cachedFolders; the
\* modal of another tab has just loaded the folders
RenameFolderInModal(folderId, newName, modal) ==
  /\ last = Idle
  /\ hasKey(IF modal THEN cachedFolders ELSE getFolders, folderId)
  /\ LET cached == IF modal THEN cachedFolders ELSE getFolders
         folder == cached[keyIndex(cached, folderId)]
         trimmedName == trim(newName)
         exists == folderNameExists(getFolders, trimmedName)
         renamed ==
           /\ trimmedName # folder.name
           /\ trimmedName # <<>>
           /\ ~(exists /\ toLowerCase(trimmedName) # toLowerCase(folder.name))
         saved == renameFolder(getFolders, folderId, trimmedName)
     IN  /\ folders' = IF renamed THEN saveFolders(saved) ELSE folders
         /\ cachedFolders' = IF modal /\ renamed THEN reload(saved)
                             ELSE cachedFolders
         /\ last' = [op |-> "renameFolder", id |-> folderId, newName |-> newName,
                     renamed |-> renamed, pre |-> getFolders, folder |-> folder]
  /\ UNCHANGED <<selectedFolderId, nextId, storageAvailable, pageVars, watchVars>>
  /\ UNCHANGED <<scrollVars, asyncVars>>

\* assignPlaylistToFolder with a target folder: addPlaylistToFolder
AddPlaylistToFolder(folderId, playlistId, modal) ==
  /\ last = Idle
  /\ modal => hasKey(cachedFolders, folderId)
  /\ \E saved \in {addPlaylistToFolder(getFolders, folderId, playlistId)} :
       /\ folders' = saveFolders(saved)
       /\ cachedFolders' = IF modal THEN reload(saved) ELSE cachedFolders
  /\ last' = [op |-> "addPlaylistToFolder", folderId |-> folderId,
              playlistId |-> playlistId, pre |-> getFolders]
  /\ UNCHANGED <<selectedFolderId, nextId, storageAvailable, pageVars, watchVars>>
  /\ UNCHANGED <<scrollVars, asyncVars>>

\* assignPlaylistToFolder with no target: removePlaylistFromFolder
RemovePlaylistFromFolder(playlistId, modal) ==
  /\ last = Idle
  /\ \E saved \in {removePlaylistFromFolder(getFolders, playlistId)} :
       /\ folders' = saveFolders(saved)
       /\ cachedFolders' = IF modal THEN reload(saved) ELSE cachedFolders
  /\ last' = [op |-> "removePlaylistFromFolder", playlistId |-> playlistId,
              pre |-> getFolders]
  /\ UNCHANGED <<selectedFolderId, nextId, storageAvailable, pageVars, watchVars>>
  /\ UNCHANGED <<scrollVars, asyncVars>>

\* handleImport with a file that passes validateImportData: importFolders
ImportFolders(data, modal) ==
  /\ last = Idle
  /\ \E r \in {importFolders(getFolders, data, nextId)} :
      /\ r.n <= MaxFolderIds + 1
      /\ folders' = saveFolders(r.folders)
      /\ nextId' = r.n
      /\ cachedFolders' = IF modal /\ r.success THEN reload(r.folders)
                          ELSE cachedFolders
      /\ last' = [op |-> "importFolders", data |-> data, result |-> r,
                  pre |-> getFolders]
  /\ UNCHANGED <<selectedFolderId, storageAvailable, pageVars, watchVars>>
  /\ UNCHANGED <<scrollVars, asyncVars>>

\* the completed operation's promise resolves and its caller goes on: the
\* event loop runs the next operation only after that
Return ==
  /\ last # Idle
  /\ last' = Idle
  /\ window' = IF window.state \in {"fired", "stopped"} THEN NoWindow ELSE window
  /\ UNCHANGED <<storeVars, pageVars, isScrollingToLoad, flagTimers,
                 playlistObserver, mutationDebounceTimer, timers, nextTimer,
                 loading>>
  /\ UNCHANGED <<scrollVars, asyncVars>>

InitStore ==
  /\ folders = <<>>
  /\ selectedFolderId = NULL
  /\ nextId = 1
  /\ cachedFolders = <<>>
  /\ storageAvailable = TRUE

InitObserver ==
  /\ isScrollingToLoad = FALSE
  /\ flagTimers = 0
  /\ playlistObserver = FALSE
  /\ mutationDebounceTimer = 0
  /\ timers = {}
  /\ nextTimer = 1
  /\ loading = NotLoading
  /\ window = NoWindow
  /\ scrollPos = Top
  /\ scrolling = NotScrolling

\* no call is suspended, and the playlists page has its chip bar
InitWatch ==
  /\ InitObserver
  /\ tasks = <<>>
  /\ isInjecting = FALSE
  /\ dropdownInjected = FALSE
  /\ location = "playlists"
  /\ chipBar = 1
  /\ dropdowns = 0

\* the extension has just been installed and no playlists page is open
Init ==
  /\ InitStore
  /\ dom = Document(FALSE, FALSE, <<>>)
  /\ cachedPlaylists = NoCache
  /\ dropdownElement = NoElement
  /\ initTimer = FALSE
  /\ InitWatch
  /\ last = Idle

Next ==
  \/ Return
  \/ \E name \in NameInputs : CreateFolder(name, TRUE)
  \/ \E id \in IssuedIds : DeleteFolder(id, TRUE)
  \/ \E id \in IssuedIds, name \in NameInputs : RenameFolderInModal(id, name, TRUE)
  \/ \E id \in IssuedIds, p \in StoreIds : AddPlaylistToFolder(id, p, TRUE)
  \/ \E p \in StoreIds : RemovePlaylistFromFolder(p, TRUE)
  \/ \E data \in ImportInputs : ImportFolders(data, TRUE)

Spec == Init /\ [][Next]_vars

\* ------------------------------------------------------------------------
\* The store shared by the modal of this tab and by other tabs: the names
\* of the folders
\* ------------------------------------------------------------------------
\* openModal: the modal loads the folders
OpenModal ==
  /\ last = Idle
  /\ cachedFolders' = getFolders
  /\ UNCHANGED <<folders, selectedFolderId, nextId, storageAvailable, pageVars,
                 watchVars, last>>
  /\ UNCHANGED <<scrollVars, asyncVars>>

TabNames == { <<"M", "u">>, <<" ", "m", "u", " ">>, <<"A", "r">> }

TabImports ==
  {[version |-> 1, folders |-> fl] :
     fl \in UNION {[1..k -> [name : ImportNames, playlistIds : {<<>>}]] : k \in 0..1}}

NextTabs ==
  \/ Return
  \/ OpenModal
  \/ \E name \in TabNames, modal \in BOOLEAN : CreateFolder(name, modal)
  \/ \E id \in IssuedIds, modal \in BOOLEAN : DeleteFolder(id, modal)
  \/ \E id \in IssuedIds, name \in NameInputs, modal \in BOOLEAN :
       RenameFolderInModal(id, name, modal)
  \/ \E data \in TabImports, modal \in BOOLEAN : ImportFolders(data, modal)

SpecTabs == Init /\ [][NextTabs]_vars

\* ------------------------------------------------------------------------
\* The content script on the playlists page.  A handler runs to completion,
\* except that a handler whose filter pass finds no cached playlists waits
\* in loadAndScrapeAllPlaylists (loading) while timers and observer
\* callbacks run; no other filter pass starts during that wait.
\* ------------------------------------------------------------------------
\* getDropdownFolderCount(folderId, folders): the count that buildMenuItems
\* writes next to an entry, over the playlists cached when it runs
getDropdownFolderCount(folderId, fs) ==
  IF cachedPlaylists = NoCache THEN 0
  ELSE
    LET playlists == cachedPlaylists[1]
        playlistIds == {playlists[i].id : i \in 1..Len(playlists)}
    IN  IF folderId = FOLDER_ID_ALL THEN Len(playlists)
        ELSE IF folderId = FOLDER_ID_UNASSIGNED
        THEN Len(SelectSeq(playlists, LAMBDA p : p.id \notin assignedIds(fs)))
        ELSE IF ~hasKey(fs, folderId) THEN 0
        ELSE Len(SelectSeq(fs[keyIndex(fs, folderId)].playlistIds,
                           LAMBDA id : id \in playlistIds))

\* mutant: the filter is run for all folders
orAll_All(selectedId) == FOLDER_ID_ALL

\* selectedId || FOLDER_ID_ALL
orAll(selectedId) == IF selectedId = NULL THEN FOLDER_ID_ALL ELSE selectedId

\* a window is closed by a stop when the stop leaves no timeout pending
closeIfStopped(w, ts) ==
  IF w.state = "open" /\ ts = {} THEN [w EXCEPT !.state = "stopped"] ELSE w

\* the rest of handler op once it has its playlists: applyFolderFilter(folderId)
\* and, in initializeFilterOnLoad and in the debounce handler,
\* refreshDropdownMenu, and, in initializeFilterOnLoad, startPlaylistObserver;
\* sel and dd are the stored selection and the dropdown that op has left, ts
\* the pending debounce timeouts
FilterPass(op, folderId, playlists, sel, dd, ts) ==
  \E r \in {applyFolderFilter(folderId, playlists, getFolders, sel, dom, dd)} :
  \E o \in {IF op = "initializeFilterOnLoad"
            THEN startPlaylistObserver(dom, ts, mutationDebounceTimer)
            ELSE [playlistObserver |-> playlistObserver, timers |-> ts,
                  mutationDebounceTimer |-> mutationDebounceTimer]} :
    /\ selectedFolderId' = setSelectedFolderId(r.selectedFolderId)
    /\ dom' = r.dom
    /\ dropdownElement' =
         IF op \in {"initializeFilterOnLoad", "handlePlaylistMutations"}
         THEN refreshDropdownMenu(r.dropdownElement, getFolders,
                                  r.selectedFolderId)
         ELSE r.dropdownElement
    /\ playlistObserver' = o.playlistObserver
    /\ timers' = o.timers
    /\ mutationDebounceTimer' = o.mutationDebounceTimer
    /\ last' = [op |-> "applyFolderFilter", caller |-> op, folderId |-> folderId,
                playlists |-> playlists, folders |-> getFolders,
                effective |-> r.folderId,
                labelUpdates |-> r.labelUpdates,
                menuRefreshes |-> r.menuRefreshes,
                preDropdown |-> dd]

\* handler op reaches applyFolderFilter(folderId): with cached playlists the
\* pass runs, without them ensurePlaylistsCached starts the load
RunFilter(op, folderId, sel, dd) ==
  IF cachedPlaylists # NoCache
  THEN /\ FilterPass(op, folderId, cachedPlaylists[1], sel, dd, timers)
       /\ window' = closeIfStopped(window, timers')
       /\ UNCHANGED <<cachedPlaylists, isScrollingToLoad, flagTimers, loading>>
  ELSE /\ selectedFolderId' = setSelectedFolderId(sel)
       /\ dropdownElement' = dd
       /\ isScrollingToLoad' = TRUE
       /\ loading' = <<[op |-> op, folderId |-> folderId]>>
       /\ UNCHANGED <<dom, cachedPlaylists, flagTimers, playlistObserver,
                      mutationDebounceTimer, timers, window, last>>

\* the setTimeout(500) callback of init(): injectDropdown, then
\* initializeFilterOnLoad (the document has the chip bar)
InjectTimerFires ==
  /\ last = Idle
  /\ initTimer
  /\ loading = NotLoading
  /\ initTimer' = FALSE
  /\ RunFilter("initializeFilterOnLoad", orAll(getSelectedFolderId),
               getSelectedFolderId,
               IF dropdownElement = NoElement
               THEN createDropdown(getFolders, getSelectedFolderId)
               ELSE dropdownElement)
  /\ UNCHANGED <<folders, nextId, cachedFolders, storageAvailable,
                 nextTimer>>
  /\ UNCHANGED <<scrollVars, asyncVars>>

\* init() on yt-navigate-finish, the page being the playlists page
InitOnPlaylistsPage ==
  /\ last = Idle
  /\ IF dropdownElement # NoElement
     THEN /\ loading = NotLoading
          /\ RunFilter("initializeFilterOnLoad", orAll(getSelectedFolderId),
                       getSelectedFolderId, dropdownElement)
          /\ UNCHANGED <<folders, nextId, cachedFolders, storageAvailable,
                 initTimer, nextTimer>>
     ELSE /\ ~initTimer
          /\ cachedPlaylists' = NoCache
          /\ initTimer' = TRUE
          /\ UNCHANGED <<storeVars, dom, dropdownElement, watchVars, last>>
  /\ UNCHANGED <<scrollVars, asyncVars>>

\* init() on yt-navigate-finish, the page being another page
InitElsewhere ==
  /\ last = Idle
  /\ \E o \in {stopPlaylistObserver(timers, mutationDebounceTimer)} :
       /\ playlistObserver' = o.playlistObserver
       /\ timers' = o.timers
       /\ mutationDebounceTimer' = o.mutationDebounceTimer
       /\ window' = closeIfStopped(window, o.timers)
  /\ cachedPlaylists' = NoCache
  /\ last' = [op |-> "init", observed |-> playlistObserver, pending |-> timers]
  /\ UNCHANGED <<storeVars, dom, dropdownElement, initTimer, isScrollingToLoad,
                 flagTimers, nextTimer, loading>>
  /\ UNCHANGED <<scrollVars, asyncVars>>

\* loadAndScrapeAllPlaylists ends: the scan, the setTimeout(100) of its
\* finally block, and the rest of the waiting handler
FinishLoad ==
  /\ last = Idle
  /\ loading # NotLoading
  /\ flagTimers < MaxFlagTimers
  /\ \E scan \in {scrapeAllPlaylists(dom)} :
       /\ cachedPlaylists' = <<scan>>
       /\ FilterPass(loading[1].op, loading[1].folderId, scan,
                     getSelectedFolderId, dropdownElement, timers)
  /\ loading' = NotLoading
  /\ flagTimers' = flagTimers + 1
  /\ window' = closeIfStopped(window, timers')
  /\ scrollPos' = IF dom.grid /\ dom.contents THEN Top ELSE scrollPos
  /\ UNCHANGED <<folders, nextId, cachedFolders, storageAvailable,
                 initTimer, isScrollingToLoad, nextTimer, scrolling>>
  /\ UNCHANGED asyncVars

\* the setTimeout(100) callback of loadAndScrapeAllPlaylists
FlagTimerFires ==
  /\ last = Idle
  /\ flagTimers > 0
  /\ flagTimers' = flagTimers - 1
  /\ isScrollingToLoad' = FALSE
  /\ timers' = {[t EXCEPT !.after = IF @ > 0 THEN @ - 1 ELSE 0] : t \in timers}
  /\ UNCHANGED <<storeVars, pageVars, playlistObserver, mutationDebounceTimer,
                 nextTimer, loading, window, last>>
  /\ UNCHANGED <<scrollVars, asyncVars>>

\* a click on an entry of the rendered menu
HandleFolderSelect(folderId) ==
  /\ last = Idle
  /\ dropdownElement # NoElement
  /\ loading = NotLoading
  /\ folderId \in {FOLDER_ID_ALL, FOLDER_ID_UNASSIGNED} \cup dropdownElement[1].menu.items
  /\ LET sel == reselect(IF folderId = FOLDER_ID_ALL THEN NULL ELSE folderId)
     IN  RunFilter("handleFolderSelect", folderId, sel,
                   updateDropdownLabel(dropdownElement, getFolders, sel))
  /\ UNCHANGED <<folders, nextId, cachedFolders, storageAvailable,
                 initTimer, nextTimer>>
  /\ UNCHANGED <<scrollVars, asyncVars>>

\* "+ New Folder" of the menu, the prompt answered with name
HandleNewFolder(name) ==
  /\ last = Idle
  /\ dropdownElement # NoElement
  /\ nextId <= MaxPageFolderIds
  /\ \E r \in {createFolder(getFolders, name, nextId)} :
       /\ folders' = saveFolders(r.folders)
       /\ nextId' = r.n
       /\ selectedFolderId' = IF r.success THEN setSelectedFolderId(generateId(nextId))
                              ELSE selectedFolderId
       /\ dropdownElement' =
            IF r.success
            THEN updateDropdownLabel(
                   refreshDropdownMenu(dropdownElement, reload(r.folders),
                                       reselect(generateId(nextId))),
                   reload(r.folders), reselect(generateId(nextId)))
            ELSE dropdownElement
       /\ last' = [op |-> "handleNewFolder", name |-> name, result |-> r]
  /\ UNCHANGED <<cachedFolders, storageAvailable, dom, cachedPlaylists, initTimer,
                 watchVars>>
  /\ UNCHANGED <<scrollVars, asyncVars>>

\* the store operations of the modal's handlers
ModalOps == {"deleteFolder", "addPlaylistToFolder"}

\* the listener of ytcatalog-folders-changed, which the modal dispatches
\* when it closes
FoldersChanged ==
  /\ last = Idle \/ last.op \in ModalOps
  /\ dropdownElement' =
       updateDropdownLabel(
         refreshDropdownMenu(dropdownElement, getFolders, getSelectedFolderId),
         getFolders, getSelectedFolderId)
  /\ last' = [op |-> "foldersChanged", mutation |-> last]
  /\ UNCHANGED <<storeVars, dom, cachedPlaylists, initTimer, watchVars>>
  /\ UNCHANGED <<scrollVars, asyncVars>>

\* the host recycles its card elements: the nodes stay, with their style,
\* and take the content of the cards in the opposite order
recycle(d) ==
  [d EXCEPT !.cards =
     [i \in 1..Len(d.cards) |->
        [d.cards[i] EXCEPT !.classId = d.cards[Len(d.cards) + 1 - i].classId,
                           !.hrefId = d.cards[Len(d.cards) + 1 - i].hrefId,
                           !.title = d.cards[Len(d.cards) + 1 - i].title]]]

\* the host mutates the grid; an attached observer calls
\* handlePlaylistMutations with the batch
HostMutatesGrid ==
  /\ last = Idle
  /\ dom' = recycle(dom)
  /\ IF playlistObserver
     THEN /\ nextTimer <= MaxTimers
          /\ \E h \in {handlePlaylistMutations(timers, mutationDebounceTimer,
                                               nextTimer, flagTimers)} :
               /\ timers' = h.timers
               /\ mutationDebounceTimer' = h.mutationDebounceTimer
          /\ nextTimer' = nextTimer + 1
          /\ window' = [window EXCEPT !.state = "open", !.batches = @ + 1]
     ELSE UNCHANGED <<timers, mutationDebounceTimer, nextTimer, window>>
  /\ UNCHANGED <<storeVars, cachedPlaylists, dropdownElement, initTimer,
                 isScrollingToLoad, flagTimers, playlistObserver, loading, last>>
  /\ UNCHANGED <<scrollVars, asyncVars>>

\* the host renders its chip bar again, without the dropdown
HostRemovesDropdown ==
  /\ last = Idle
  /\ dropdownElement # NoElement
  /\ dropdownElement' = NoElement
  /\ UNCHANGED <<storeVars, dom, cachedPlaylists, initTimer, watchVars, last>>
  /\ UNCHANGED <<scrollVars, asyncVars>>

\* the setTimeout(400) callback of handlePlaylistMutations
DebounceTimerFires(t) ==
  /\ last = Idle
  /\ t \in timers
  /\ t.after = 0
  /\ IF isScrollingToLoad
     THEN /\ timers' = timers \ {t}
          /\ last' = [op |-> "handlePlaylistMutations", skipped |-> TRUE]
          /\ window' = [window EXCEPT
                          !.handlers = @ + 1, !.skips = @ + 1,
                          !.state = IF timers \ {t} = {} THEN "fired" ELSE @]
          /\ UNCHANGED <<selectedFolderId, dom, cachedPlaylists, dropdownElement,
                         playlistObserver, mutationDebounceTimer>>
     ELSE /\ \E scan \in {scrapeAllPlaylists(dom)} :
               /\ cachedPlaylists' = <<scan>>
               /\ FilterPass("handlePlaylistMutations", orAll(getSelectedFolderId),
                             scan, getSelectedFolderId, dropdownElement,
                             timers \ {t})
          /\ window' = [window EXCEPT
                          !.handlers = @ + 1, !.rescans = @ + 1,
                          !.state = IF timers \ {t} = {} THEN "fired" ELSE @]
  /\ UNCHANGED <<folders, nextId, cachedFolders, storageAvailable,
                 initTimer, isScrollingToLoad, flagTimers,
                 nextTimer, loading>>
  /\ UNCHANGED <<scrollVars, asyncVars>>

\* ------------------------------------------------------------------------
\* The playlists page with the dropdown, the modal and other tabs
\* ------------------------------------------------------------------------
PageNames == { <<"M", "u">>, <<"A", "r">> }

PageIds == {PL1, PL2}

PL1Card == Card(PL1, PL1, <<"A">>, TRUE)
PL2Card == Card(PL2, PL2, <<"B">>, TRUE)
OL9Card == Card(NoId, OL9, <<"C">>, TRUE)
UU5Card == Card(UU5, NoId, <<"D">>, TRUE)

FilterDocuments ==
  { Document(TRUE, TRUE, <<PL1Card, PL2Card>>),
    Document(TRUE, TRUE, <<PL2Card, UU5Card, OL9Card>>) }

\* the script has just been loaded on the playlists page: init() has set
\* its timeout
InitPage(documents) ==
  /\ dom \in documents
  /\ cachedPlaylists = NoCache
  /\ dropdownElement = NoElement
  /\ initTimer = TRUE
  /\ InitWatch
  /\ last = Idle

InitFilter == InitStore /\ InitPage(FilterDocuments)

NextFilter ==
  \/ Return
  \/ InjectTimerFires
  \/ FinishLoad
  \/ FlagTimerFires
  \/ \E folderId \in {FOLDER_ID_ALL, FOLDER_ID_UNASSIGNED} \cup IssuedIds :
       HandleFolderSelect(folderId)
  \/ \E name \in PageNames : HandleNewFolder(name)
  \/ FoldersChanged
  \/ \E id \in IssuedIds : DeleteFolder(id, FALSE)
  \/ \E id \in IssuedIds, p \in PageIds : AddPlaylistToFolder(id, p, FALSE)

SpecFilter == InitFilter /\ [][NextFilter]_vars

\* ------------------------------------------------------------------------
\* The playlists page opened on a store that an earlier session has left
\* ------------------------------------------------------------------------
PersistedStores ==
  { [folders |-> <<>>, selectedFolderId |-> NULL, nextId |-> 1],
    [folders |-> <<Folder(generateId(1), <<"M", "u">>, <<PL1>>)>>,
     selectedFolderId |-> generateId(1), nextId |-> 2] }

InitPersisted ==
  \E st \in PersistedStores :
    /\ folders = st.folders
    /\ selectedFolderId = st.selectedFolderId
    /\ nextId = st.nextId
    /\ cachedFolders = <<>>
    /\ storageAvailable = TRUE

\* ------------------------------------------------------------------------
\* The import of a file into a store that an earlier session has left
\* ------------------------------------------------------------------------
\* what JSON.parse returns for the file that buildExportData has made of data
exportEntry(folder) ==
  JObject(<< <<"name", JString(folder.name)>>,
             <<"playlistIds",
               JArray([k \in 1..Len(folder.playlistIds) |->
                         JString(folder.playlistIds[k])])>> >>)

exportFile(data) ==
  JObject(<< <<"version", JNumber(data.version)>>,
             <<"folders",
               JArray([i \in 1..Len(data.folders) |-> exportEntry(data.folders[i])])>> >>)

\* a file that JSON.parse refuses
SyntaxError == JValue("syntaxError", 0, <<>>, <<>>, <<>>)

GoodEntry == exportEntry([name |-> <<"A", "r">>, playlistIds |-> <<PL1>>])

\* entries of the folders array that violate the format
BadEntries ==
  { JNull, JString(<<"A", "r">>), JArray(<<>>),
    JObject(<< <<"playlistIds", JArray(<<JString(PL1)>>)>> >>),
    JObject(<< <<"name", JString(<<"M", "u">>)>> >>) }
  \cup { JObject(<< <<"name", name>>, <<"playlistIds", JArray(<<JString(PL1)>>)>> >>) :
           name \in {JNumber(7), JString(<<>>), JString(<<" ", "\t">>)} }
  \cup { JObject(<< <<"name", JString(<<"M", "u">>)>>, <<"playlistIds", ids>> >>) :
           ids \in {JString(PL1), JArray(<<JString(PL1), JNumber(5)>>),
                    JArray(<<JNull>>)} }

InvalidFiles ==
  { SyntaxError, JNull, JString(<<"A", "r">>), JArray(<<>>),
    JObject(<< <<"folders", JArray(<<GoodEntry>>)>> >>),
    JObject(<< <<"version", JString(<<"1">>)>>, <<"folders", JArray(<<GoodEntry>>)>> >>),
    JObject(<< <<"version", JNumber(1)>> >>),
    JObject(<< <<"version", JNumber(1)>>, <<"folders", JNull>> >>),
    JObject(<< <<"version", JNumber(1)>>, <<"folders", JObject(<<>>)>> >>) }
  \cup { JObject(<< <<"version", JNumber(1)>>, <<"folders", JArray(entries)>> >>) :
           entries \in UNION { {<<bad>>, <<GoodEntry, bad>>, <<bad, GoodEntry>>} :
                                 bad \in BadEntries } }

ImportFiles == {exportFile(data) : data \in ImportInputs} \cup InvalidFiles

\* handleImport, once the user has chosen a file: JSON.parse, then
\* validateImportData, then importFolders; every outcome ends in an alert
HandleImport(file, modal) ==
  /\ last = Idle
  /\ LET validationError ==
           IF file = SyntaxError THEN <<"Invalid file format: not valid JSON">>
           ELSE validateImportData(file)
     IN  IF validationError # NoError
         THEN /\ last' = [op |-> "handleImport", file |-> file,
                          imported |-> FALSE, alert |-> validationError,
                          pre |-> getFolders]
              /\ UNCHANGED storeVars
         ELSE \E r \in {importFolders(getFolders, asExportData(file), nextId)} :
                /\ r.n <= MaxFolderIds + 1
                /\ folders' = saveFolders(r.folders)
                /\ nextId' = r.n
                /\ cachedFolders' = IF modal THEN reload(r.folders)
                                    ELSE cachedFolders
                /\ last' = [op |-> "handleImport", file |-> file,
                            imported |-> TRUE,
                            alert |-> <<"Successfully imported "
                                          \o ToString(r.foldersImported)
                                          \o " folder"
                                          \o IF r.foldersImported = 1 THEN ""
                                             ELSE "s">>,
                            pre |-> getFolders]
                /\ UNCHANGED <<selectedFolderId, storageAvailable>>
  /\ UNCHANGED <<pageVars, watchVars>>
  /\ UNCHANGED <<scrollVars, asyncVars>>

\* the modal is open on a page whose init() has run
InitImport ==
  /\ InitPersisted
  /\ dom = Document(FALSE, FALSE, <<>>)
  /\ cachedPlaylists = NoCache
  /\ dropdownElement = NoElement
  /\ initTimer = FALSE
  /\ InitWatch
  /\ last = Idle

NextImport ==
  \/ Return
  \/ \E file \in ImportFiles : HandleImport(file, TRUE)

SpecImport == InitImport /\ [][NextImport]_vars

\* cards as the scan meets them: the id in the class and in the link, the
\* id in the link only, a class id that is no user playlist with a link that
\* is one, no playlist id at all, two different ids outside the grid
ScanCards ==
  { Card(PL1, PL1, <<"A">>, TRUE),
    Card(NoId, PL1, <<" ", "B">>, TRUE),
    Card(UU5, PL2, NoTitle, TRUE),
    Card(UU5, NoId, <<"D">>, TRUE),
    Card(PL2, PL1, <<"E">>, FALSE) }

\* without a grid container no card is inside it
outsideGrid(cards) == [i \in 1..Len(cards) |-> [cards[i] EXCEPT !.inGrid = FALSE]]

ScanDocuments ==
  UNION { {Document(TRUE, TRUE, cards), Document(FALSE, FALSE, outsideGrid(cards))} :
            cards \in UNION {[1..n -> ScanCards] : n \in 0..MaxCards} }

InitScan == InitPersisted /\ InitPage(ScanDocuments)

NextScan ==
  \/ Return
  \/ InjectTimerFires
  \/ FinishLoad
  \/ FlagTimerFires

SpecScan == InitScan /\ [][NextScan]_vars

\* the second document has no scroll container: no observer is attached
WatchDocuments ==
  { Document(TRUE, TRUE, <<PL1Card, PL2Card>>),
    Document(TRUE, FALSE, <<PL1Card>>) }

InitWatcher == InitPersisted /\ InitPage(WatchDocuments)

NextWatcher ==
  \/ Return
  \/ InjectTimerFires
  \/ InitOnPlaylistsPage
  \/ InitElsewhere
  \/ FinishLoad
  \/ FlagTimerFires
  \/ HostMutatesGrid
  \/ HostRemovesDropdown
  \/ \E t \in timers : DebounceTimerFires(t)

SpecWatcher == InitWatcher /\ [][NextWatcher]_vars

\* ------------------------------------------------------------------------
\* The playlists page after the extension is reloaded under it
\* ------------------------------------------------------------------------
\* The extension context of this tab is invalidated: chrome.storage is
\* undefined from here on, while the stored folders stay where they are
ContextInvalidated ==
  /\ last = Idle
  /\ storageAvailable
  /\ storageAvailable' = FALSE
  /\ UNCHANGED <<folders, selectedFolderId, nextId, cachedFolders, pageVars,
                 watchVars, last>>
  /\ UNCHANGED <<scrollVars, asyncVars>>

InitDegraded == InitPersisted /\ InitPage(FilterDocuments)

\* the dropdown and the modal of this tab
NextDegraded ==
  \/ Return
  \/ ContextInvalidated
  \/ InjectTimerFires
  \/ FinishLoad
  \/ FlagTimerFires
  \/ \E folderId \in {FOLDER_ID_ALL, FOLDER_ID_UNASSIGNED} \cup IssuedIds :
       HandleFolderSelect(folderId)
  \/ \E name \in PageNames : HandleNewFolder(name)
  \/ FoldersChanged
  \/ OpenModal
  \/ \E id \in IssuedIds : DeleteFolder(id, TRUE)
  \/ \E id \in IssuedIds, p \in PageIds : AddPlaylistToFolder(id, p, TRUE)

SpecDegraded == InitDegraded /\ [][NextDegraded]_vars

\* ------------------------------------------------------------------------
\* scrollToLoadAllPlaylists, one sleep at a time
\* ------------------------------------------------------------------------
MAX_SCROLL_ATTEMPTS == 50
STABLE_COUNT_THRESHOLD == 3

\* cards that the host loads during one sleep, at most
MaxAdded == 1
\* rows that the user has scrolled down before the load, at most
MaxScrollPos == 2

\* document.documentElement.scrollHeight and container.scrollHeight: how far
\* the page of d scrolls, in rows of one card
scrollHeight(d) == Len(d.cards)

\* container.scrollTop = container.scrollHeight;
\* window.scrollTo(0, document.documentElement.scrollHeight)
scrollToBottom(d) ==
  [window |-> scrollHeight(d), container |-> scrollHeight(d)]

\* root.querySelectorAll(SELECTORS.playlistCard).length, the root being the
\* grid container or the document
cardCount(d, grid) == Len(selectFrom(d.cards, 1, grid))

\* the test of the while loop
loopContinues(l) ==
  l.attempts < MAX_SCROLL_ATTEMPTS /\ l.stableCount < STABLE_COUNT_THRESHOLD

\* the body of the loop from the end of the sleep on
countStep(l, currentCount) ==
  IF currentCount = l.previousCount
  THEN [l EXCEPT !.stableCount = @ + 1, !.attempts = @ + 1]
  ELSE [l EXCEPT !.stableCount = 0, !.previousCount = currentCount,
                 !.attempts = @ + 1]

\* The user scrolls the page while the content script is idle
UserScrolls(w, c) ==
  /\ last = Idle
  /\ scrolling = NotScrolling
  /\ w <= scrollHeight(dom)
  /\ c <= scrollHeight(dom)
  /\ scrollPos' = [window |-> w, container |-> c]
  /\ UNCHANGED <<storeVars, pageVars, watchVars, scrolling, last>>
  /\ UNCHANGED asyncVars

\* scrollToLoadAllPlaylists() up to its first sleep.  The locals carry two
\* records of the run beside them: start, the scroll position at the call,
\* and unchanged, the number of steps just past in which the number of
\* cards of the document has stayed what it was.
ScrollToLoadStart ==
  /\ last = Idle
  /\ scrolling = NotScrolling
  /\ IF ~dom.grid \/ ~dom.contents
     THEN /\ last' = [op |-> "scrollToLoadAllPlaylists", result |-> 0,
                      attempts |-> 0, unchanged |-> 0, start |-> scrollPos]
          /\ UNCHANGED scrollVars
     ELSE /\ scrolling' = <<[previousCount |-> cardCount(dom, TRUE),
                             stableCount |-> 0, attempts |-> 0,
                             start |-> scrollPos, unchanged |-> 0]>>
          /\ scrollPos' = scrollToBottom(dom)
          /\ UNCHANGED last
  /\ UNCHANGED <<storeVars, pageVars, watchVars>>
  /\ UNCHANGED asyncVars

\* sleep(SCROLL_DELAY_MS) resolves, the host having loaded added cards into
\* the grid: the cards are counted, and the loop sleeps again or the
\* function scrolls to the top and returns
SleepEnds(added) ==
  /\ scrolling # NotScrolling
  /\ LET d == [dom EXCEPT !.cards = @ \o [i \in 1..added |-> PL1Card]]
         counted == countStep(scrolling[1], cardCount(d, FALSE))
         l == [counted EXCEPT !.unchanged = IF added = 0 THEN @ + 1 ELSE 0]
     IN  /\ dom' = d
         /\ IF loopContinues(l)
            THEN /\ scrolling' = <<l>>
                 /\ scrollPos' = scrollToBottom(d)
                 /\ UNCHANGED last
            ELSE /\ scrolling' = NotScrolling
                 /\ scrollPos' = Top
                 /\ last' = [op |-> "scrollToLoadAllPlaylists",
                             result |-> cardCount(d, FALSE),
                             attempts |-> l.attempts,
                             unchanged |-> l.unchanged, start |-> l.start]
  /\ UNCHANGED <<storeVars, cachedPlaylists, dropdownElement, initTimer,
                 watchVars>>
  /\ UNCHANGED asyncVars

\* a card of the home page recommendations, which stays in the document
HomeCard == Card(PL2, PL2, <<"H">>, FALSE)

\* the playlists page, the same with a recommendation outside the grid, a
\* grid without the scroll container, a page without the grid
ScrollDocuments ==
  { Document(TRUE, TRUE, <<PL1Card, PL2Card>>),
    Document(TRUE, TRUE, <<HomeCard, PL1Card, PL2Card>>),
    Document(TRUE, FALSE, <<PL1Card, PL2Card>>),
    Document(FALSE, FALSE, <<HomeCard, HomeCard>>) }

InitScroll ==
  /\ InitStore
  /\ dom \in ScrollDocuments
  /\ cachedPlaylists = NoCache
  /\ dropdownElement = NoElement
  /\ initTimer = FALSE
  /\ InitWatch
  /\ last = Idle

NextScroll ==
  \/ \E w, c \in 0..MaxScrollPos : UserScrolls(w, c)
  \/ ScrollToLoadStart
  \/ \E added \in 0..MaxAdded : SleepEnds(added)

SpecScroll == InitScroll /\ [][NextScroll]_vars

\* the timeout of every sleep fires
SpecScrollFair ==
  SpecScroll /\ WF_vars(\E added \in 0..MaxAdded : SleepEnds(added))

\* ------------------------------------------------------------------------
\* The content script, an await at a time (content/youtube.ts).  A call of
\* handleFolderSelect, of initializeFilterOnLoad or of the debounce
\* callback is a task [op, pc, selection, folderId, playlists, fs, page,
\* steps]: pc is the await it is suspended at, selection what
\* getSelectedFolderId gave it, folderId the argument of its
\* applyFolderFilter, playlists and fs the locals of applyFolderFilter, page
\* the page on which its loadAndScrapeAllPlaylists in progress was called,
\* steps the calls it has made.  A call
\* of chrome.storage reads or writes the store when it is issued, and the
\* calls are answered in the order they were issued; the reads of
\* updateDropdownLabel, of refreshDropdownMenu and of createDropdown, and
\* the stale-folder branch of applyFolderFilter, are answered without
\* another callback running in between.  The page the user leaves the
\* playlists page for has the same grid containers.
\* ------------------------------------------------------------------------
Task(op, pc, selection, folderId, steps) ==
  [op |-> op, pc |-> pc, selection |-> selection, folderId |-> folderId,
   playlists |-> <<>>, fs |-> <<>>, page |-> "", steps |-> steps]

\* the tasks other than the i-th
others(i) == SubSeq(tasks, 1, i - 1) \o SubSeq(tasks, i + 1, Len(tasks))

\* the i-th task waits for chrome.storage and no call issued before its
\* call is unanswered
answered(i, pc) ==
  /\ tasks[i].pc = pc
  /\ \A j \in 1..(i - 1) : tasks[j].pc = "loadAndScrapeAllPlaylists"

\* the calls of loadAndScrapeAllPlaylists in progress
loadsInProgress == {i \in 1..Len(tasks) : tasks[i].pc = "loadAndScrapeAllPlaylists"}

\* applyFolderFilter(t.folderId) up to its first suspension:
\* ensurePlaylistsCached, and with cached playlists the call of getFolders
EnsurePlaylistsCached(i) ==
  LET t == [tasks[i] EXCEPT !.steps = Append(@, "ensurePlaylistsCached")]
  IN  IF cachedPlaylists # NoCache
      THEN /\ tasks' = Append(others(i),
                              [t EXCEPT !.pc = "getFolders",
                                        !.playlists = cachedPlaylists[1],
                                        !.fs = getFolders])
           /\ UNCHANGED isScrollingToLoad
      ELSE /\ tasks' = [tasks EXCEPT ![i] =
                          [t EXCEPT !.pc = "loadAndScrapeAllPlaylists",
                                    !.page = location,
                                    !.steps = Append(@, "loadAndScrapeAllPlaylists")]]
           /\ isScrollingToLoad' = TRUE

\* initializeFilterOnLoad up to its first suspension
initializeFilterOnLoad ==
  Task("initializeFilterOnLoad", "getSelectedFolderId", getSelectedFolderId,
       orAll(getSelectedFolderId), <<"getSelectedFolderId">>)

\* a click on an entry of the rendered menu: handleFolderSelect up to its
\* first suspension
SelectFolder(folderId) ==
  /\ last = Idle
  /\ dropdownElement # NoElement
  /\ Len(tasks) < MaxTasks
  /\ folderId \in {FOLDER_ID_ALL, FOLDER_ID_UNASSIGNED} \cup dropdownElement[1].menu.items
  /\ selectedFolderId' =
       setSelectedFolderId(IF folderId = FOLDER_ID_ALL THEN NULL ELSE folderId)
  /\ tasks' = Append(tasks, Task("handleFolderSelect", "setSelectedFolderId",
                                 NULL, folderId, <<"setSelectedFolderId">>))
  /\ UNCHANGED <<folders, nextId, cachedFolders, storageAvailable, pageVars,
                 watchVars, scrollVars, isInjecting, dropdownInjected,
                 location, chipBar, dropdowns, last>>

\* handleFolderSelect goes on after setSelectedFolderId: updateDropdownLabel,
\* then applyFolderFilter
SelectionSaved(i) ==
  /\ last = Idle
  /\ answered(i, "setSelectedFolderId")
  /\ dropdownElement' =
       updateDropdownLabel(dropdownElement, getFolders, getSelectedFolderId)
  /\ EnsurePlaylistsCached(i)
  /\ UNCHANGED <<storeVars, dom, cachedPlaylists, initTimer, flagTimers,
                 playlistObserver, mutationDebounceTimer, timers, nextTimer,
                 loading, window, scrollVars, isInjecting, dropdownInjected,
                 location, chipBar, dropdowns, last>>

\* initializeFilterOnLoad and the debounce callback go on after
\* getSelectedFolderId: applyFolderFilter
SelectionRead(i) ==
  /\ last = Idle
  /\ answered(i, "getSelectedFolderId")
  /\ EnsurePlaylistsCached(i)
  /\ UNCHANGED <<storeVars, pageVars, flagTimers, playlistObserver,
                 mutationDebounceTimer, timers, nextTimer, loading, window,
                 scrollVars, isInjecting, dropdownInjected, location, chipBar,
                 dropdowns, last>>

\* loadAndScrapeAllPlaylists returns: its scan, the setTimeout(100) of its
\* finally block, the assignment of ensurePlaylistsCached and the call of
\* getFolders
LoadEnds(i) ==
  /\ last = Idle
  /\ i \in loadsInProgress
  /\ flagTimers < MaxFlagTimers
  /\ \E scan \in {scrapeAllPlaylists(dom)} :
       /\ cachedPlaylists' = <<scan>>
       /\ tasks' = Append(others(i),
                          [tasks[i] EXCEPT !.pc = "getFolders",
                                           !.page = "",
                                           !.playlists = scan,
                                           !.fs = getFolders])
  /\ flagTimers' = flagTimers + 1
  /\ scrollPos' = IF dom.grid /\ dom.contents THEN Top ELSE scrollPos
  /\ last' = [op |-> "loadAndScrapeAllPlaylists", caller |-> tasks[i].op,
              location |-> location, started |-> tasks[i].page]
  /\ UNCHANGED <<storeVars, dom, dropdownElement, initTimer, isScrollingToLoad,
                 playlistObserver, mutationDebounceTimer, timers, nextTimer,
                 loading, window, scrolling, isInjecting, dropdownInjected,
                 location, chipBar, dropdowns>>

\* applyFolderFilter goes on after getFolders: the loop over its playlists;
\* handleFolderSelect returns, and so do the other two when there is no
\* dropdown to refresh
FoldersRead(i) ==
  /\ last = Idle
  /\ answered(i, "getFolders")
  /\ \E t \in {tasks[i]} :
     \E r \in {applyFolderFilter(t.folderId, t.playlists, t.fs,
                                 getSelectedFolderId, dom, dropdownElement)} :
     \E returns \in {t.op = "handleFolderSelect" \/ r.dropdownElement = NoElement} :
     \E o \in {IF returns /\ t.op = "initializeFilterOnLoad"
               THEN startPlaylistObserver(dom, timers, mutationDebounceTimer)
               ELSE [playlistObserver |-> playlistObserver, timers |-> timers,
                     mutationDebounceTimer |-> mutationDebounceTimer]} :
       /\ selectedFolderId' = setSelectedFolderId(r.selectedFolderId)
       /\ dom' = r.dom
       /\ dropdownElement' = r.dropdownElement
       /\ playlistObserver' = o.playlistObserver
       /\ timers' = o.timers
       /\ mutationDebounceTimer' = o.mutationDebounceTimer
       /\ window' = closeIfStopped(window, o.timers)
       /\ tasks' = IF returns THEN others(i)
                   ELSE Append(others(i), [t EXCEPT !.pc = "refreshDropdownMenu",
                                                    !.steps = Append(@, "applyFolderFilter")])
       /\ last' = [op |-> "applyFolderFilter", caller |-> t.op,
                   selection |-> t.selection, folderId |-> t.folderId,
                   playlists |-> t.playlists, folders |-> t.fs,
                   steps |-> IF t.op = "handleFolderSelect"
                             THEN Append(t.steps, "applyFolderFilter")
                             ELSE t.steps \o <<"applyFolderFilter", "refreshDropdownMenu">>,
                   returned |-> returns, location |-> location]
  /\ UNCHANGED <<folders, nextId, cachedFolders, storageAvailable,
                 cachedPlaylists, initTimer, isScrollingToLoad, flagTimers,
                 nextTimer, loading, scrollVars, isInjecting, dropdownInjected,
                 location, chipBar, dropdowns>>

\* refreshDropdownMenu has rendered the menu: the debounce callback returns,
\* and initializeFilterOnLoad calls startPlaylistObserver and returns
MenuRefreshed(i) ==
  /\ last = Idle
  /\ answered(i, "refreshDropdownMenu")
  /\ \E t \in {tasks[i]} :
     \E o \in {IF t.op = "initializeFilterOnLoad"
               THEN startPlaylistObserver(dom, timers, mutationDebounceTimer)
               ELSE [playlistObserver |-> playlistObserver, timers |-> timers,
                     mutationDebounceTimer |-> mutationDebounceTimer]} :
       /\ dropdownElement' =
            refreshDropdownMenu(dropdownElement, getFolders, getSelectedFolderId)
       /\ playlistObserver' = o.playlistObserver
       /\ timers' = o.timers
       /\ mutationDebounceTimer' = o.mutationDebounceTimer
       /\ window' = closeIfStopped(window, o.timers)
       /\ tasks' = others(i)
       /\ last' = [op |-> "refreshDropdownMenu", caller |-> t.op,
                   selection |-> t.selection, folderId |-> t.folderId,
                   steps |-> Append(t.steps, "refreshDropdownMenu"),
                   returned |-> TRUE, location |-> location]
  /\ UNCHANGED <<storeVars, dom, cachedPlaylists, initTimer, isScrollingToLoad,
                 flagTimers, nextTimer, loading, scrollVars, isInjecting,
                 dropdownInjected, location, chipBar, dropdowns>>

\* the setTimeout(400) callback of handlePlaylistMutations, up to its first
\* suspension
DebounceFires(t) ==
  /\ last = Idle
  /\ t \in timers
  /\ t.after = 0
  /\ timers' = timers \ {t}
  /\ IF isScrollingToLoad
     THEN /\ window' = [window EXCEPT
                          !.handlers = @ + 1, !.skips = @ + 1,
                          !.state = IF timers \ {t} = {} THEN "fired" ELSE @]
          /\ UNCHANGED <<cachedPlaylists, tasks>>
     ELSE /\ Len(tasks) < MaxTasks
          /\ cachedPlaylists' = <<scrapeAllPlaylists(dom)>>
          /\ tasks' = Append(tasks,
                             Task("handlePlaylistMutations", "getSelectedFolderId",
                                  getSelectedFolderId, orAll(getSelectedFolderId),
                                  <<"clearPlaylistCache", "scrapeAllPlaylists",
                                    "getSelectedFolderId">>))
          /\ window' = [window EXCEPT
                          !.handlers = @ + 1, !.rescans = @ + 1,
                          !.state = IF timers \ {t} = {} THEN "fired" ELSE @]
  /\ last' = [op |-> "handlePlaylistMutations", skipped |-> isScrollingToLoad,
              running |-> Cardinality(loadsInProgress), location |-> location]
  /\ UNCHANGED <<storeVars, dom, dropdownElement, initTimer, isScrollingToLoad,
                 flagTimers, playlistObserver, mutationDebounceTimer, nextTimer,
                 loading, scrollVars, isInjecting, dropdownInjected, location,
                 chipBar, dropdowns>>

\* yt-navigate-finish: the host has navigated to page `to`, and init() runs
\* up to its first suspension
Navigate(to) ==
  /\ last = Idle
  /\ location' = to
  /\ IF to = "playlists"
     THEN IF dropdownElement # NoElement
          THEN /\ Len(tasks) < MaxTasks
               /\ dropdownInjected' = TRUE
               /\ tasks' = Append(tasks, initializeFilterOnLoad)
               /\ UNCHANGED <<cachedPlaylists, initTimer, playlistObserver,
                              timers, mutationDebounceTimer, window>>
          ELSE /\ ~initTimer
               /\ dropdownInjected' = FALSE
               /\ cachedPlaylists' = NoCache
               /\ initTimer' = TRUE
               /\ UNCHANGED <<tasks, playlistObserver, timers,
                              mutationDebounceTimer, window>>
     ELSE /\ \E o \in {stopPlaylistObserver(timers, mutationDebounceTimer)} :
               /\ playlistObserver' = o.playlistObserver
               /\ timers' = o.timers
               /\ mutationDebounceTimer' = o.mutationDebounceTimer
               /\ window' = closeIfStopped(window, o.timers)
          /\ cachedPlaylists' = NoCache
          /\ UNCHANGED <<tasks, initTimer, dropdownInjected>>
  /\ last' = [op |-> "init", location |-> to, cached |-> cachedPlaylists]
  /\ UNCHANGED <<storeVars, dom, dropdownElement, isScrollingToLoad, flagTimers,
                 nextTimer, loading, scrollVars, isInjecting, chipBar, dropdowns>>

\* the setTimeout(500) callback of init(): injectDropdown, which finds the
\* dropdown or the chip bar of the playlists page, then
\* initializeFilterOnLoad up to its first suspension
InjectFires ==
  /\ last = Idle
  /\ initTimer
  /\ initTimer' = FALSE
  /\ IF dropdownElement # NoElement \/ (location = "playlists" /\ chipBar # 0)
     THEN /\ Len(tasks) < MaxTasks
          /\ dropdownElement' =
               IF dropdownElement = NoElement
               THEN createDropdown(getFolders, getSelectedFolderId)
               ELSE dropdownElement
          /\ dropdownInjected' = TRUE
          /\ tasks' = Append(tasks, initializeFilterOnLoad)
     ELSE UNCHANGED <<dropdownElement, dropdownInjected, tasks>>
  /\ UNCHANGED <<storeVars, dom, cachedPlaylists, watchVars, scrollVars,
                 isInjecting, location, chipBar, dropdowns, last>>

AsyncDocuments == { Document(TRUE, TRUE, <<PL1Card, PL2Card>>) }

\* an earlier session has left a folder, which is selected
InitAsync ==
  /\ InitPersisted
  /\ folders # <<>>
  /\ InitPage(AsyncDocuments)

NextAsync ==
  \/ Return
  \/ InjectFires
  \/ \E to \in {"playlists", "elsewhere"} : Navigate(to)
  \/ \E folderId \in {FOLDER_ID_ALL} \cup IssuedIds : SelectFolder(folderId)
  \/ \E i \in 1..Len(tasks) : SelectionSaved(i)
  \/ \E i \in 1..Len(tasks) : SelectionRead(i)
  \/ \E i \in 1..Len(tasks) : LoadEnds(i)
  \/ \E i \in 1..Len(tasks) : FoldersRead(i)
  \/ \E i \in 1..Len(tasks) : MenuRefreshed(i)
  \/ FlagTimerFires
  \/ nextTimer <= MaxBatches /\ HostMutatesGrid
  \/ HostRemovesDropdown
  \/ \E t \in timers : DebounceFires(t)

SpecAsync == InitAsync /\ [][NextAsync]_vars

\* ------------------------------------------------------------------------
\* The injection of the dropdown (content/youtube.ts).  chipBar numbers the
\* chip bars that the host has rendered, 0 when the document has none, and
\* dropdowns counts the elements of the document with the id of the
\* dropdown.  A task is [pc, chipBar, fromInit]: a pending setTimeout(500)
\* of init ("init"), a pending retry ("retry"), or a call of injectDropdown
\* suspended in createDropdown ("createDropdown"), made by the callback of
\* init or by a retry, with the chip bar it has found, or a call of
\* initializeFilterOnLoad made by init or by its callback
\* ("initializeFilterOnLoad"), which runs as in SpecFilter.  The callbacks
\* fire in any order.
\* ------------------------------------------------------------------------
\* mutant: the dropdown is never found
getElementById_Null(n) == FALSE

\* document.getElementById('ytcatalog-folder-dropdown'), n such elements
\* being in the document
getElementById(n) == n > 0

Call(pc, bar, fromInit) == [pc |-> pc, chipBar |-> bar, fromInit |-> fromInit]

\* injectDropdown up to its first suspension: the flags it leaves, and
\* whether it is suspended in createDropdown
injectDropdown ==
  IF isInjecting
  THEN [isInjecting |-> TRUE, dropdownInjected |-> dropdownInjected,
        suspended |-> FALSE]
  ELSE IF getElementById(dropdowns)
  THEN [isInjecting |-> FALSE, dropdownInjected |-> TRUE, suspended |-> FALSE]
  ELSE IF chipBar = 0
  THEN [isInjecting |-> FALSE, dropdownInjected |-> dropdownInjected,
        suspended |-> FALSE]
  ELSE [isInjecting |-> TRUE, dropdownInjected |-> dropdownInjected,
        suspended |-> TRUE]

\* the callback of init once its injectDropdown has returned: the two
\* retries, set when the dropdown is not injected
retries(injected) ==
  IF injected THEN <<>>
  ELSE <<Call("retry", 0, FALSE), Call("retry", 0, FALSE)>>

\* the end of the callback of init, and init when it finds the dropdown:
\* initializeFilterOnLoad, called when the dropdown is injected
filterOnLoad(injected) ==
  IF injected THEN <<Call("initializeFilterOnLoad", 0, TRUE)>> ELSE <<>>

\* yt-navigate-finish: the host has navigated to page `to`, and init() runs
InitRuns(to) ==
  /\ last = Idle
  /\ location' = to
  /\ IF to = "playlists"
     THEN IF getElementById(dropdowns)
          THEN /\ Len(tasks) < MaxCalls
               /\ dropdownInjected' = TRUE
               /\ tasks' = tasks \o filterOnLoad(TRUE)
               /\ UNCHANGED cachedPlaylists
          ELSE /\ Len(tasks) < MaxCalls
               /\ dropdownInjected' = FALSE
               /\ cachedPlaylists' = NoCache
               /\ tasks' = Append(tasks, Call("init", 0, TRUE))
     ELSE /\ cachedPlaylists' = NoCache
          /\ UNCHANGED <<tasks, dropdownInjected>>
  /\ \E o \in {IF to = "playlists"
               THEN [playlistObserver |-> playlistObserver, timers |-> timers,
                     mutationDebounceTimer |-> mutationDebounceTimer]
               ELSE stopPlaylistObserver(timers, mutationDebounceTimer)} :
       /\ playlistObserver' = o.playlistObserver
       /\ timers' = o.timers
       /\ mutationDebounceTimer' = o.mutationDebounceTimer
  /\ UNCHANGED <<storeVars, dom, dropdownElement, initTimer, isScrollingToLoad,
                 flagTimers, nextTimer, loading, window, scrollVars,
                 isInjecting, chipBar, dropdowns, last>>

\* the setTimeout(500) callback of init(): injectDropdown, and after it the
\* retries
CallbackFires(i) ==
  /\ last = Idle
  /\ tasks[i].pc = "init"
  /\ \E r \in {injectDropdown} :
       /\ isInjecting' = r.isInjecting
       /\ dropdownInjected' = r.dropdownInjected
       /\ tasks' = IF r.suspended
                   THEN Append(others(i), Call("createDropdown", chipBar, TRUE))
                   ELSE others(i) \o retries(r.dropdownInjected)
                                  \o filterOnLoad(r.dropdownInjected)
       /\ Len(tasks') <= MaxCalls
  /\ UNCHANGED <<storeVars, pageVars, watchVars, scrollVars, location, chipBar,
                 dropdowns, last>>

\* a setTimeout(injectDropdown, 1000) or (injectDropdown, 2000) fires
RetryFires(i) ==
  /\ last = Idle
  /\ tasks[i].pc = "retry"
  /\ \E r \in {injectDropdown} :
       /\ isInjecting' = r.isInjecting
       /\ dropdownInjected' = r.dropdownInjected
       /\ tasks' = IF r.suspended
                   THEN Append(others(i), Call("createDropdown", chipBar, FALSE))
                   ELSE others(i)
  /\ UNCHANGED <<storeVars, pageVars, watchVars, scrollVars, location, chipBar,
                 dropdowns, last>>

\* createDropdown returns: injectDropdown looks for the dropdown again,
\* inserts the new one into the chip bar it has found, which is in the
\* document if the host has rendered no other since, and releases its lock
DropdownCreated(i) ==
  /\ last = Idle
  /\ tasks[i].pc = "createDropdown"
  /\ dropdownElement' = createDropdown(getFolders, getSelectedFolderId)
  /\ dropdowns' = IF ~getElementById(dropdowns) /\ tasks[i].chipBar = chipBar
                  THEN dropdowns + 1
                  ELSE dropdowns
  /\ dropdownInjected' = TRUE
  /\ isInjecting' = FALSE
  /\ tasks' = others(i) \o (IF tasks[i].fromInit
                             THEN retries(TRUE) \o filterOnLoad(TRUE)
                             ELSE <<>>)
  /\ last' = [op |-> "injectDropdown", found |-> dropdowns,
              inserted |-> dropdowns' - dropdowns,
              retry |-> ~tasks[i].fromInit]
  /\ UNCHANGED <<storeVars, dom, cachedPlaylists, initTimer, watchVars,
                 scrollVars, location, chipBar>>

\* initializeFilterOnLoad: the stored selection, applyFolderFilter for it,
\* which loads the playlists when none are cached, refreshDropdownMenu and
\* startPlaylistObserver
FilterOnLoad(i) ==
  /\ last = Idle
  /\ tasks[i].pc = "initializeFilterOnLoad"
  /\ loading = NotLoading
  /\ RunFilter("initializeFilterOnLoad", orAll(getSelectedFolderId),
               getSelectedFolderId, dropdownElement)
  /\ tasks' = others(i)
  /\ UNCHANGED <<folders, nextId, cachedFolders, storageAvailable, initTimer,
                 nextTimer, scrollVars, isInjecting, dropdownInjected,
                 location, chipBar, dropdowns>>

\* the host renders its chip bar, for the first time or again: what was in
\* the chip bar before is no longer in the document
HostRendersChipBar ==
  /\ last = Idle
  /\ chipBar < MaxChipBars
  /\ chipBar' = chipBar + 1
  /\ dropdowns' = 0
  /\ UNCHANGED <<storeVars, pageVars, watchVars, scrollVars, tasks, isInjecting,
                 dropdownInjected, location, last>>

\* the script has just been loaded on the playlists page, which has no chip
\* bar yet: init() has set its timeout
InitInject ==
  /\ InitPersisted
  /\ dom \in AsyncDocuments
  /\ cachedPlaylists = NoCache
  /\ dropdownElement = NoElement
  /\ initTimer = FALSE
  /\ InitObserver
  /\ tasks = <<Call("init", 0, TRUE)>>
  /\ isInjecting = FALSE
  /\ dropdownInjected = FALSE
  /\ location = "playlists"
  /\ chipBar = 0
  /\ dropdowns = 0
  /\ last = Idle

NextInject ==
  \/ Return
  \/ \E to \in {"playlists", "elsewhere"} : InitRuns(to)
  \/ \E i \in 1..Len(tasks) : CallbackFires(i)
  \/ \E i \in 1..Len(tasks) : RetryFires(i)
  \/ \E i \in 1..Len(tasks) : DropdownCreated(i)
  \/ \E i \in 1..Len(tasks) : FilterOnLoad(i)
  \/ FinishLoad
  \/ FlagTimerFires
  \/ HostRendersChipBar

SpecInject == InitInject /\ [][NextInject]_vars

\* every timeout set fires and every promise awaited settles; the host
\* navigates and renders as it pleases
SpecInjectFair ==
  /\ SpecInject
  /\ WF_vars(Return)
  /\ WF_vars(\E i \in 1..Len(tasks) : CallbackFires(i))
  /\ WF_vars(\E i \in 1..Len(tasks) : RetryFires(i))
  /\ WF_vars(\E i \in 1..Len(tasks) : DropdownCreated(i))
  /\ WF_vars(\E i \in 1..Len(tasks) : FilterOnLoad(i))
  /\ WF_vars(FinishLoad)
  /\ WF_vars(FlagTimerFires)

\* ------------------------------------------------------------------------
\* The assignments of the modal, a call of chrome.storage at a time
\* (content/modal.ts, shared/storage.ts).  A click on a folder of the
\* sidebar with a playlist selected starts a mutation [op, pc, playlistId,
\* folderId, fs]: pc is the call of chrome.storage it waits for, fs the
\* folders that its getFolders has read.  A call reads or writes the store
\* when it is issued, and the calls are answered in the order they were
\* issued; a click is handled whenever no callback runs.
\* ------------------------------------------------------------------------
Mutation(op, playlistId, folderId, fs) ==
  [op |-> op, pc |-> "getFolders", playlistId |-> playlistId,
   folderId |-> folderId, fs |-> fs]

\* the mutations that have read the folders and have not written them yet
readNotWritten == {i \in 1..Len(tasks) : tasks[i].pc = "getFolders"}

\* the click handler of a sidebar item, playlistId being the selected
\* playlist: assignPlaylistToFolder, up to the getFolders of the store
\* function
SidebarClick(playlistId, targetFolderId) ==
  /\ last = Idle
  /\ Len(tasks) < MaxMutations
  /\ targetFolderId = NULL \/ hasKey(cachedFolders, targetFolderId)
  /\ getFolderIdForPlaylist(playlistId, cachedFolders) # targetFolderId
  /\ tasks' = Append(tasks,
                     Mutation(IF targetFolderId = NULL
                              THEN "removePlaylistFromFolder"
                              ELSE "addPlaylistToFolder",
                              playlistId, targetFolderId, getFolders))
  /\ UNCHANGED <<storeVars, pageVars, watchVars, scrollVars, isInjecting,
                 dropdownInjected, location, chipBar, dropdowns, last>>

\* getFolders is answered: the store function changes the folders it has
\* read and calls saveFolders
FoldersAnswered ==
  /\ last = Idle
  /\ tasks # <<>>
  /\ tasks[1].pc = "getFolders"
  /\ \E t \in {tasks[1]} :
     \E saved \in {IF t.op = "addPlaylistToFolder"
                   THEN addPlaylistToFolder(t.fs, t.folderId, t.playlistId)
                   ELSE removePlaylistFromFolder(t.fs, t.playlistId)} :
       /\ folders' = saveFolders(saved)
       /\ tasks' = Append(Tail(tasks), [t EXCEPT !.pc = "saveFolders", !.fs = saved])
       /\ last' = [op |-> "saveFolders", caller |-> t.op, read |-> t.fs,
                   stored |-> getFolders, saved |-> saved]
  /\ UNCHANGED <<selectedFolderId, nextId, cachedFolders, storageAvailable,
                 pageVars, watchVars, scrollVars, isInjecting, dropdownInjected,
                 location, chipBar, dropdowns>>

\* saveFolders is answered: the store function returns, and
\* assignPlaylistToFolder calls getFolders
FoldersSaved ==
  /\ last = Idle
  /\ tasks # <<>>
  /\ tasks[1].pc = "saveFolders"
  /\ tasks' = Append(Tail(tasks), [tasks[1] EXCEPT !.pc = "reload", !.fs = getFolders])
  /\ UNCHANGED <<storeVars, pageVars, watchVars, scrollVars, isInjecting,
                 dropdownInjected, location, chipBar, dropdowns, last>>

\* the getFolders of assignPlaylistToFolder is answered: cachedFolders, and
\* the handler renders the modal
FoldersReloaded ==
  /\ last = Idle
  /\ tasks # <<>>
  /\ tasks[1].pc = "reload"
  /\ cachedFolders' = tasks[1].fs
  /\ tasks' = Tail(tasks)
  /\ last' = [op |-> "assignPlaylistToFolder", playlistId |-> tasks[1].playlistId,
              folderId |-> tasks[1].folderId]
  /\ UNCHANGED <<folders, selectedFolderId, nextId, storageAvailable, pageVars,
                 watchVars, scrollVars, isInjecting, dropdownInjected, location,
                 chipBar, dropdowns>>

\* the modal is open on a store of two folders
InitOverlap ==
  /\ folders = <<Folder(generateId(1), <<"M", "u">>, <<>>),
                 Folder(generateId(2), <<"A", "r">>, <<>>)>>
  /\ selectedFolderId = NULL
  /\ nextId = 3
  /\ cachedFolders = folders
  /\ storageAvailable = TRUE
  /\ InitPage(AsyncDocuments)

NextOverlap ==
  \/ Return
  \/ \E playlistId \in {PL1, PL2}, targetFolderId \in {NULL} \cup IssuedIds :
       SidebarClick(playlistId, targetFolderId)
  \/ FoldersAnswered
  \/ FoldersSaved
  \/ FoldersReloaded

SpecOverlap == InitOverlap /\ [][NextOverlap]_vars

\* ------------------------------------------------------------------------
\* extractPlaylistId on one card of the host
\* ------------------------------------------------------------------------
ExtractPlaylistId ==
  /\ last = Idle
  /\ last' = [op |-> "extractPlaylistId", node |-> dom.cards[1],
              id |-> extractPlaylistId(cardOf(dom.cards[1]))]
  /\ UNCHANGED <<storeVars, pageVars, watchVars, scrollVars, asyncVars>>

InitExtract ==
  /\ InitStore
  /\ \E className \in ClassNames, href \in Hrefs :
       dom = Document(TRUE, TRUE, <<Node(className, href)>>)
  /\ cachedPlaylists = NoCache
  /\ dropdownElement = NoElement
  /\ initTimer = FALSE
  /\ InitWatch
  /\ last = Idle

NextExtract ==
  \/ Return
  \/ ExtractPlaylistId

SpecExtract == InitExtract /\ [][NextExtract]_vars

\* ------------------------------------------------------------------------
\* The scan of the modal (content/modal.ts): openModal scans the document
\* of the page with its own loop, whatever the content script has cached.
\* ------------------------------------------------------------------------
\* the id that the loop of scrapePlaylistsForModal takes from a card: the
\* one of the class when the class has one, the one of the link otherwise
modalPlaylistId(card) ==
  IF card.classId # NoId THEN card.classId ELSE card.hrefId

\* the loop of scrapePlaylistsForModal over the cards found: no id, an id
\* of another kind, or an id seen before, and the card is passed over
RECURSIVE modalLoop(_, _, _, _)
modalLoop(cards, nodes, playlists, seenIds) ==
  IF nodes = <<>> THEN playlists
  ELSE
    LET node == Head(nodes)
        id == modalPlaylistId(cards[node])
    IN  IF id = NoId \/ ~isUserPlaylistId(id) \/ id \in seenIds
        THEN modalLoop(cards, Tail(nodes), playlists, seenIds)
        ELSE modalLoop(cards, Tail(nodes),
                       Append(playlists,
                              [id |-> id,
                               title |-> trim(IF cards[node].title = NoTitle
                                              THEN UnknownPlaylist
                                              ELSE cards[node].title)]),
                       seenIds \cup {id})

scrapePlaylistsForModal(d) == modalLoop(d.cards, playlistCards(d), <<>>, {})

\* the ids of a scan, in its order
idsOf(playlists) == [i \in 1..Len(playlists) |-> playlists[i].id]

\* openModal: the folders are read and the document is scanned
ScrapePlaylistsForModal ==
  /\ last = Idle
  /\ cachedFolders' = getFolders
  /\ last' = [op |-> "scrapePlaylistsForModal",
              playlists |-> scrapePlaylistsForModal(dom)]
  /\ UNCHANGED <<folders, selectedFolderId, nextId, storageAvailable, pageVars,
                 watchVars, scrollVars, asyncVars>>

NextModal ==
  \/ Return
  \/ InjectTimerFires
  \/ FinishLoad
  \/ FlagTimerFires
  \/ ScrapePlaylistsForModal

SpecModal == InitScan /\ [][NextModal]_vars

\* ------------------------------------------------------------------------
\* Export and import (storage.ts).  The store is the one of SpecTabs, with
\* playlists assigned by the modal of this tab and by other tabs, and the
\* export of the store is imported into it.
\* ------------------------------------------------------------------------
\* the letters in the order of localeCompare; white space sorts before them
Letters ==
  <<"a", "b", "c", "d", "e", "f", "g", "h", "i", "j", "k", "l", "m",
    "n", "o", "p", "q", "r", "s", "t", "u", "v", "w", "x", "y", "z">>

weight(c) ==
  IF \E k \in 1..Len(Letters) : Letters[k] = c
  THEN CHOOSE k \in 1..Len(Letters) : Letters[k] = c
  ELSE 0

\* a.localeCompare(b) < 0, a and b in lower case
RECURSIVE localeCompareLess(_, _)
localeCompareLess(a, b) ==
  IF b = <<>> THEN FALSE
  ELSE IF a = <<>> THEN TRUE
  ELSE IF weight(Head(a)) # weight(Head(b)) THEN weight(Head(a)) < weight(Head(b))
  ELSE localeCompareLess(Tail(a), Tail(b))

\* Array.prototype.sort by name in lower case; the sort is stable: a folder
\* goes after the folders sorted so far that do not compare greater
RECURSIVE insertByName(_, _)
insertByName(sorted, folder) ==
  IF sorted = <<>> THEN <<folder>>
  ELSE IF localeCompareLess(toLowerCase(folder.name), toLowerCase(Head(sorted).name))
  THEN <<folder>> \o sorted
  ELSE <<Head(sorted)>> \o insertByName(Tail(sorted), folder)

RECURSIVE sortByName(_, _)
sortByName(sorted, fs) ==
  IF fs = <<>> THEN sorted
  ELSE sortByName(insertByName(sorted, Head(fs)), Tail(fs))

\* buildExportData over the folders read: name and playlistIds of every
\* folder, sorted by name (exportedAt is read by nothing)
buildExportData(fs) ==
  LET sortedFolders == sortByName(<<>>, fs)
  IN  [version |-> 1,
       folders |-> [i \in 1..Len(sortedFolders) |->
                      [name |-> sortedFolders[i].name,
                       playlistIds |-> sortedFolders[i].playlistIds]]]

RoundTripIds == {PL1, PL2}

NextRoundTrip ==
  \/ Return
  \/ OpenModal
  \/ \E name \in TabNames, modal \in BOOLEAN : CreateFolder(name, modal)
  \/ \E id \in IssuedIds, modal \in BOOLEAN : DeleteFolder(id, modal)
  \/ \E id \in IssuedIds, name \in NameInputs, modal \in BOOLEAN :
       RenameFolderInModal(id, name, modal)
  \/ \E id \in IssuedIds, p \in RoundTripIds, modal \in BOOLEAN :
       AddPlaylistToFolder(id, p, modal)
  \/ \E modal \in BOOLEAN : ImportFolders(buildExportData(getFolders), modal)

SpecRoundTrip == Init /\ [][NextRoundTrip]_vars

\* ------------------------------------------------------------------------
\* Properties of the store (specification Spec)
\* ------------------------------------------------------------------------
sameName(a, b) == toLowerCase(trim(a)) = toLowerCase(trim(b))

\* the folders of fs whose name equals name case-insensitively
foldersNamed(fs, name) == {i \in 1..Len(fs) : sameName(fs[i].name, name)}

\* C1: single membership.  In every state reached from the empty store by
\* store operations run to completion, no playlist id is in the playlistIds
\* of two folders.
C1_SingleMembership ==
  \A i, j \in 1..Len(folders) :
    i # j => Range(folders[i].playlistIds) \cap Range(folders[j].playlistIds) = {}

\* a playlist that was in one folder has just been added to another one, or
\* an import has just moved a playlist between two folders
C1_Witness ==
  \/ /\ last.op = "addPlaylistToFolder"
     /\ hasKey(last.pre, last.folderId)
     /\ getFolderIdForPlaylist(last.playlistId, last.pre) \notin {NULL, last.folderId}
     /\ getFolderIdForPlaylist(last.playlistId, folders) = last.folderId
  \/ /\ last.op = "importFolders"
     /\ \E p \in StoreIds :
          /\ getFolderIdForPlaylist(p, last.pre) # NULL
          /\ getFolderIdForPlaylist(p, folders) # getFolderIdForPlaylist(p, last.pre)

\* C2 as the specification states it: after an import, for every imported
\* entry whose name matches an existing folder case-insensitively, there is
\* exactly one folder of that name; when the entry is the only one of the
\* import, the folder's playlist ids are exactly the entry's; and the ids the
\* existing folder held that the import does not list are in no folder.
C2_ImportReplaceByName ==
  last.op = "importFolders" =>
    LET entries == last.data.folders
        listed == UNION {Range(entries[k].playlistIds) : k \in 1..Len(entries)}
    IN  \A k \in 1..Len(entries) :
          \A i \in foldersNamed(last.pre, entries[k].name) :
            /\ Cardinality(foldersNamed(folders, entries[k].name)) = 1
            /\ Len(entries) = 1 =>
                 \A j \in foldersNamed(folders, entries[k].name) :
                   Range(folders[j].playlistIds) = Range(entries[k].playlistIds)
            /\ \A p \in Range(last.pre[i].playlistIds) \ listed :
                 p \notin assignedIds(folders)

\* C7: import last-wins.  After an import, every playlist id that the import
\* lists is in the folder named by the last entry that lists it, and in no
\* other folder.
C7_ImportLastWins ==
  last.op = "importFolders" =>
    LET entries == last.data.folders
    IN  \A p \in UNION {Range(entries[k].playlistIds) : k \in 1..Len(entries)} :
          LET lastK == CHOOSE k \in 1..Len(entries) :
                         /\ p \in Range(entries[k].playlistIds)
                         /\ \A m \in (k + 1)..Len(entries) :
                              p \notin Range(entries[m].playlistIds)
          IN  \A i \in 1..Len(folders) :
                p \in Range(folders[i].playlistIds)
                  <=> sameName(folders[i].name, entries[lastK].name)

\* an import has listed one id under two different folder names, and the id
\* was in yet another state before: it is now in the later entry's folder
C7_Witness ==
  /\ last.op = "importFolders"
  /\ \E k, m \in 1..Len(last.data.folders) :
       /\ k < m
       /\ ~sameName(last.data.folders[k].name, last.data.folders[m].name)
       /\ \E p \in Range(last.data.folders[k].playlistIds)
                     \cap Range(last.data.folders[m].playlistIds) :
            \E i \in 1..Len(folders) :
              /\ sameName(folders[i].name, last.data.folders[m].name)
              /\ p \in Range(folders[i].playlistIds)

\* C10: createFolder validation.  createFolder(name) fails with empty_name
\* when the trimmed name is empty and with duplicate_name when a folder's
\* name equals it case-insensitively, leaving the folders as they were;
\* otherwise it appends exactly one folder, with a new id, the trimmed name
\* and no playlist ids, and leaves the other folders as they were.
C10_CreateFolderValidation ==
  last.op = "createFolder" =>
    LET r == last.result
        trimmed == trim(last.name)
        duplicate == \E i \in 1..Len(last.pre) : sameName(last.pre[i].name, last.name)
    IN  IF trimmed = <<>>
        THEN ~r.success /\ r.error = "empty_name" /\ folders = last.pre
        ELSE IF duplicate
        THEN ~r.success /\ r.error = "duplicate_name" /\ folders = last.pre
        ELSE /\ r.success
             /\ Len(folders) = Len(last.pre) + 1
             /\ SubSeq(folders, 1, Len(last.pre)) = last.pre
             /\ folders[Len(folders)].id \notin folderIds(last.pre)
             /\ folders[Len(folders)].name = trimmed
             /\ folders[Len(folders)].playlistIds = <<>>

\* createFolder has just refused a name that differs from an existing
\* folder's name only by letter case and surrounding white space
C10_Witness ==
  /\ last.op = "createFolder"
  /\ last.result.error = "duplicate_name"
  /\ \A i \in 1..Len(last.pre) : last.pre[i].name # last.name
  /\ folders = last.pre
  /\ folders # <<>>

\* the membership of playlist id q in the folders of fs, by folder id
membership(fs, q) == {fs[i].id : i \in {k \in 1..Len(fs) : includes(fs[k].playlistIds, q)}}

\* the number of times q is in the list s
occurrences(s, q) == Cardinality({i \in 1..Len(s) : s[i] = q})

\* C14: assign protocol.  Assigning a playlist to an existing folder, with
\* no removal by the caller before, leaves the playlist once in that folder's
\* playlistIds and in no other folder, and changes the membership of no
\* other playlist; assigning it to no folder takes it out of the folder that
\* holds it, changes the membership of no other playlist, and leaves the
\* folders as they were when no folder holds it.
C14_AssignProtocol ==
  /\ last.op = "addPlaylistToFolder" /\ hasKey(last.pre, last.folderId) =>
       /\ membership(folders, last.playlistId) = {last.folderId}
       /\ occurrences(folders[keyIndex(folders, last.folderId)].playlistIds,
                      last.playlistId) = 1
       /\ \A q \in StoreIds \ {last.playlistId} :
            membership(folders, q) = membership(last.pre, q)
       /\ folderIds(folders) = folderIds(last.pre)
  /\ last.op = "removePlaylistFromFolder" =>
       /\ membership(folders, last.playlistId) = {}
       /\ \A q \in StoreIds \ {last.playlistId} :
            membership(folders, q) = membership(last.pre, q)
       /\ folderIds(folders) = folderIds(last.pre)
       /\ membership(last.pre, last.playlistId) = {} => folders = last.pre

\* a playlist held by a folder next to another playlist has just been
\* assigned to another folder, or has just been unassigned
C14_Witness ==
  /\ last.op \in {"addPlaylistToFolder", "removePlaylistFromFolder"}
  /\ \E i \in 1..Len(last.pre) :
       /\ includes(last.pre[i].playlistIds, last.playlistId)
       /\ Len(last.pre[i].playlistIds) >= 2
       /\ last.op = "addPlaylistToFolder" =>
            last.pre[i].id # last.folderId /\ hasKey(last.pre, last.folderId)
  /\ folders # last.pre

\* the names of the entries of an import, trimmed and in lower case
importedNames(entries) ==
  {toLowerCase(trim(entries[k].name)) : k \in 1..Len(entries)}

\* C16: import merge frame.  After importFolders every folder that existed
\* is still there, in its place and with its id; a folder whose name matches
\* an imported entry case-insensitively still is the only folder of that
\* name, the others keep their name too; and one folder with a new id is
\* added for each imported name that no folder had.
C16_ImportMergeFrame ==
  last.op = "importFolders" =>
    LET entries == last.data.folders
        existing == {toLowerCase(last.pre[i].name) : i \in 1..Len(last.pre)}
    IN  /\ Len(folders) >= Len(last.pre)
        /\ \A i \in 1..Len(last.pre) :
             /\ folders[i].id = last.pre[i].id
             /\ toLowerCase(folders[i].name) = toLowerCase(last.pre[i].name)
             /\ foldersNamed(folders, last.pre[i].name) = {i}
             /\ toLowerCase(last.pre[i].name) \notin importedNames(entries)
                  => folders[i].name = last.pre[i].name
        /\ Len(folders) - Len(last.pre)
             = Cardinality(importedNames(entries) \ existing)
        /\ \A j \in (Len(last.pre) + 1)..Len(folders) :
             /\ folders[j].id \notin folderIds(last.pre)
             /\ toLowerCase(folders[j].name) \in importedNames(entries) \ existing
             /\ \E k \in 1..Len(entries) : folders[j].name = trim(entries[k].name)

\* an import has just named an existing folder in another letter case,
\* which kept its id, and a new folder, which got a new id
C16_Witness ==
  /\ last.op = "importFolders"
  /\ Len(folders) = Len(last.pre) + 1
  /\ \E k \in 1..Len(last.data.folders), i \in 1..Len(last.pre) :
       /\ sameName(last.data.folders[k].name, last.pre[i].name)
       /\ trim(last.data.folders[k].name) # last.pre[i].name
       /\ folders[i].id = last.pre[i].id
       /\ folders[i].name = trim(last.data.folders[k].name)

\* ------------------------------------------------------------------------
\* Properties of the folder names (specification SpecTabs)
\* ------------------------------------------------------------------------
\* C11: folder-name invariant.  In every state reached from the empty store
\* by createFolder, rename and import operations in any order, whichever
\* tab calls them, no two folders have names that are equal
\* case-insensitively, and every folder name is non-empty and has no leading
\* or trailing white space.
C11_FolderNameInvariant ==
  /\ \A i, j \in 1..Len(folders) :
       i # j => toLowerCase(folders[i].name) # toLowerCase(folders[j].name)
  /\ \A i \in 1..Len(folders) :
       folders[i].name # <<>> /\ trim(folders[i].name) = folders[i].name

\* C12: rename validation.  A rename leaves the folders as they were when
\* the trimmed new name is empty or equals, case-insensitively, the name of
\* a different folder; a rename of an existing folder to its own name in
\* another letter case gives the folder the trimmed new name.
C12_RenameValidation ==
  last.op = "renameFolder" =>
    LET trimmed == trim(last.newName)
        taken == \E i \in 1..Len(last.pre) :
                   /\ last.pre[i].id # last.id
                   /\ toLowerCase(last.pre[i].name) = toLowerCase(trimmed)
        own == last.pre[keyIndex(last.pre, last.id)].name
    IN  /\ trimmed = <<>> \/ taken => folders = last.pre
        /\ /\ hasKey(last.pre, last.id)
           /\ ~taken
           /\ trimmed # own
           /\ toLowerCase(trimmed) = toLowerCase(own)
           => folders = renameFolder(last.pre, last.id, trimmed)

\* ------------------------------------------------------------------------
\* Properties of the import of a file (specification SpecImport)
\* ------------------------------------------------------------------------
\* an entry of the folders array in the export format
entryInFormat(entry) ==
  /\ entry.t = "object"
  /\ field(entry, "name").t = "string"
  /\ \E k \in 1..Len(field(entry, "name").chars) :
       field(entry, "name").chars[k] \notin WhiteSpace
  /\ field(entry, "playlistIds").t = "array"
  /\ \A k \in 1..Len(field(entry, "playlistIds").items) :
       field(entry, "playlistIds").items[k].t = "string"

\* the file violates the export format
formatViolated(file) ==
  \/ file.t # "object"
  \/ field(file, "version").t # "number"
  \/ field(file, "folders").t # "array"
  \/ \E i \in 1..Len(field(file, "folders").items) :
       ~entryInFormat(field(file, "folders").items[i])

\* C15: import validation is all-or-nothing.  When the file violates the
\* format (version no number, folders no array, an entry with an empty name,
\* playlistIds missing or with an element that is no string), the import
\* ends with an error message that names what is wrong, nothing is
\* imported, and the folders are exactly as they were before.
C15_ImportValidation ==
  last.op = "handleImport" /\ formatViolated(last.file) =>
    /\ ~last.imported
    /\ last.alert # NoError /\ last.alert[1] # ""
    /\ folders = last.pre
    /\ last.file.t = "object" /\ field(last.file, "version").t # "number" =>
         last.alert = <<"Invalid file format: missing or invalid version field">>
    /\ /\ last.file.t = "object"
       /\ field(last.file, "version").t = "number"
       /\ field(last.file, "folders").t # "array"
       => last.alert = <<"Invalid file format: missing or invalid folders array">>

\* a file whose first entry is in the format and lists a playlist that a
\* folder of the store holds, and whose second entry is not, has just been
\* refused
C15_Witness ==
  /\ last.op = "handleImport"
  /\ ~last.imported
  /\ Len(field(last.file, "folders").items) = 2
  /\ entryInFormat(field(last.file, "folders").items[1])
  /\ ~entryInFormat(field(last.file, "folders").items[2])
  /\ PL1 \in assignedIds(last.pre)
  /\ folders = last.pre

\* ------------------------------------------------------------------------
\* Properties of the filter (specification SpecFilter)
\* ------------------------------------------------------------------------
\* the scanned items of a pass and the display of their cards
displayOf(playlist) == dom.cards[playlist.element].display

\* the visibility that a selection asks for, stated on the folder contents
Visible(id, sel, fs) ==
  \/ sel \in {NULL, FOLDER_ID_ALL}
  \/ sel = FOLDER_ID_UNASSIGNED /\ \A k \in 1..Len(fs) : id \notin Range(fs[k].playlistIds)
  \/ \E k \in 1..Len(fs) : fs[k].id = sel /\ id \in Range(fs[k].playlistIds)
  \/ sel \notin {NULL, FOLDER_ID_ALL, FOLDER_ID_UNASSIGNED} \cup {fs[k].id : k \in 1..Len(fs)}

GridIs(sel, fs) ==
  \A i \in 1..Len(cachedPlaylists[1]) :
    displayOf(cachedPlaylists[1][i]) = "" <=> Visible(cachedPlaylists[1][i].id, sel, fs)

\* C3: stale-selection self-heal.  A filter pass invoked with a folder id
\* that is not in the stored folders leaves the stored selection absent
\* ("all"), every scanned item visible, and has refreshed the label once and
\* the menu once: the dropdown shows the label of "all" and offers exactly
\* the stored folders.
C3_StaleSelectionSelfHeal ==
  (/\ last.op = "applyFolderFilter"
   /\ last.folderId \notin {FOLDER_ID_ALL, FOLDER_ID_UNASSIGNED}
                            \cup {last.folders[k].id : k \in 1..Len(last.folders)})
  =>
    /\ selectedFolderId = NULL
    /\ \A i \in 1..Len(last.playlists) : displayOf(last.playlists[i]) = ""
    /\ last.labelUpdates = 1
    /\ last.menuRefreshes = 1
    /\ dropdownElement # NoElement =>
         /\ dropdownElement[1].label = <<"All Folders">>
         /\ dropdownElement[1].menu.items = {folders[k].id : k \in 1..Len(folders)}
         /\ dropdownElement[1].menu.active = FOLDER_ID_ALL

\* a click on a menu entry whose folder is no longer stored has run the
\* pass over a scan with items, and the entry is gone from the menu
C3_Witness ==
  /\ last.op = "applyFolderFilter"
  /\ last.caller = "handleFolderSelect"
  /\ last.folderId \in last.preDropdown[1].menu.items
  /\ last.folderId \notin {last.folders[k].id : k \in 1..Len(last.folders)}
  /\ last.folders # <<>>
  /\ Len(last.playlists) >= 2
  /\ last.folderId \notin dropdownElement[1].menu.items
  /\ selectedFolderId = NULL

\* C4: unassigned completeness.  After a filter pass with selection
\* "unassigned", a scanned item is visible exactly when its id is in no
\* folder's playlistIds, and hidden otherwise.
C4_UnassignedCompleteness ==
  (last.op = "applyFolderFilter" /\ last.folderId = FOLDER_ID_UNASSIGNED) =>
    \A i \in 1..Len(last.playlists) :
      /\ displayOf(last.playlists[i]) \in {"", "none"}
      /\ displayOf(last.playlists[i]) = ""
           <=> \A k \in 1..Len(folders) :
                 last.playlists[i].id \notin Range(folders[k].playlistIds)

\* a pass with selection "unassigned" over two folders with members has
\* shown one scanned item and hidden another
C4_Witness ==
  /\ last.op = "applyFolderFilter"
  /\ last.folderId = FOLDER_ID_UNASSIGNED
  /\ Len(folders) = 2
  /\ folders[2].playlistIds # <<>>
  /\ \E i, j \in 1..Len(last.playlists) :
       /\ displayOf(last.playlists[i]) = ""
       /\ displayOf(last.playlists[j]) = "none"
       /\ last.playlists[j].id \in Range(folders[2].playlistIds)

\* C5: folder filter.  After a filter pass whose selection is a stored
\* folder, a scanned item is visible exactly when its id is in that folder's
\* playlistIds, and hidden otherwise.
C5_FolderFilter ==
  (/\ last.op = "applyFolderFilter"
   /\ \E k \in 1..Len(last.folders) : last.folders[k].id = last.folderId)
  =>
    \A i \in 1..Len(last.playlists) :
      /\ displayOf(last.playlists[i]) \in {"", "none"}
      /\ displayOf(last.playlists[i]) = ""
           <=> \E k \in 1..Len(folders) :
                 /\ folders[k].id = last.folderId
                 /\ last.playlists[i].id \in Range(folders[k].playlistIds)

\* a pass for a stored folder has shown its member, hidden a member of
\* another folder and hidden an item of no folder
C5_Witness ==
  /\ last.op = "applyFolderFilter"
  /\ \E k \in 1..Len(folders) :
       /\ folders[k].id = last.folderId
       /\ \E i \in 1..Len(last.playlists) :
            /\ last.playlists[i].id \in Range(folders[k].playlistIds)
            /\ displayOf(last.playlists[i]) = ""
  /\ \E j \in 1..Len(last.playlists) :
       /\ displayOf(last.playlists[j]) = "none"
       /\ last.playlists[j].id \notin assignedIds(folders)

\* C6 as the specification states it: when the grid showed the filter of the
\* stored selection, the modal has changed the store and the
\* folders-changed listener has run, the grid shows the filter of the stored
\* selection against the new folders.
C6_StoreChangeRefilters ==
  (/\ last.op = "foldersChanged"
   /\ last.mutation.op \in ModalOps
   /\ cachedPlaylists # NoCache
   /\ GridIs(IF last.mutation.op = "deleteFolder" THEN last.mutation.preSelected
             ELSE selectedFolderId,
             last.mutation.pre))
  => GridIs(selectedFolderId, folders)

\* C13: deleteFolder.  deleteFolder(id) removes the folder id and no other,
\* and leaves every other folder as it was, so that the playlists the folder
\* held are in no folder; the stored selection is removed, which selects
\* all playlists, when it was id, and is left as it was otherwise.
C13_DeleteFolder ==
  last.op = "deleteFolder" =>
    /\ ~hasKey(folders, last.id)
    /\ folders = SelectSeq(last.pre, LAMBDA f : f.id # last.id)
    /\ \A i \in 1..Len(last.pre) :
         last.pre[i].id = last.id =>
           Range(last.pre[i].playlistIds) \cap assignedIds(folders) = {}
    /\ selectedFolderId = IF last.preSelected = last.id THEN NULL
                          ELSE last.preSelected
    /\ orAll(selectedFolderId) = FOLDER_ID_ALL
         <=> last.preSelected \in {last.id, NULL, FOLDER_ID_ALL}

\* the selected folder, which held a playlist, has just been deleted and
\* another folder is left
C13_Witness ==
  /\ last.op = "deleteFolder"
  /\ last.preSelected = last.id
  /\ \E i \in 1..Len(last.pre) :
       last.pre[i].id = last.id /\ last.pre[i].playlistIds # <<>>
  /\ folders # <<>>
  /\ selectedFolderId = NULL

\* C17: filter idempotence.  A filter pass that is run again with the same
\* selection, on the same scanned playlists, folders and document as the
\* pass that has just ended left them, gives every card the display that it
\* has, and leaves the selection as it is.
C17_FilterIdempotence ==
  last.op = "applyFolderFilter" =>
    LET again == applyFolderFilter(last.folderId, last.playlists, folders,
                                   selectedFolderId, dom, dropdownElement)
    IN  /\ again.dom = dom
        /\ again.selectedFolderId = selectedFolderId
        /\ \A i \in 1..Len(last.playlists) :
             displayOf(last.playlists[i]) = ""
               <=> show(last.playlists[i].id, again.folderId, folders)

\* a pass for a folder has just hidden a card and shown another
C17_Witness ==
  /\ last.op = "applyFolderFilter"
  /\ last.effective \notin {FOLDER_ID_ALL, FOLDER_ID_UNASSIGNED}
  /\ \E i, j \in 1..Len(last.playlists) :
       /\ displayOf(last.playlists[i]) = ""
       /\ displayOf(last.playlists[j]) = "none"

\* C32: a filter pass leaves the folders as they are, and leaves the stored
\* selection as it is unless the folder it filters for is missing from the
\* store, in which case it stores no selection.  The selection that
\* handleFolderSelect stores before its pass is the handler's, not the
\* pass's.
C32_FilterFrame ==
  [][last'.op = "applyFolderFilter" =>
       LET folderId == last'.folderId
           missing == /\ folderId \notin {FOLDER_ID_ALL, FOLDER_ID_UNASSIGNED}
                      /\ \A i \in 1..Len(folders) : folders[i].id # folderId
           before == IF last'.caller = "handleFolderSelect" /\ loading = NotLoading
                     THEN IF folderId = FOLDER_ID_ALL THEN NULL ELSE folderId
                     ELSE selectedFolderId
       IN  /\ folders' = folders
           /\ nextId' = nextId
           /\ selectedFolderId' = IF missing THEN NULL ELSE before]_vars

\* a pass for a folder that another tab has deleted has reset the stored
\* selection, and the folders that remain are those of before
C32_Witness ==
  /\ last.op = "applyFolderFilter"
  /\ last.folderId \notin {FOLDER_ID_ALL, FOLDER_ID_UNASSIGNED}
  /\ ~hasKey(folders, last.folderId)
  /\ folders # <<>>
  /\ folders = last.folders
  /\ selectedFolderId = NULL

\* a pass for an existing folder has kept the selection
FilterKeepsSelection ==
  /\ last.op = "applyFolderFilter"
  /\ hasKey(folders, last.folderId)
  /\ selectedFolderId = last.folderId
  /\ \E i \in 1..Len(last.playlists) : displayOf(last.playlists[i]) = "none"

\* C35: when a handler of the dropdown that stores a selection has ended,
\* handleFolderSelect for an entry or handleNewFolder for a folder it has
\* created, every scanned card is shown exactly when the selection now
\* stored asks for it.
C35_SelectionChangeFiltersGrid ==
  (/\ cachedPlaylists # NoCache
   /\ \/ last.op = "applyFolderFilter" /\ last.caller = "handleFolderSelect"
      \/ last.op = "handleNewFolder" /\ last.result.success) =>
    GridIs(selectedFolderId, folders)

\* the same of handleFolderSelect alone
SelectFiltersGrid ==
  (/\ cachedPlaylists # NoCache
   /\ last.op = "applyFolderFilter" /\ last.caller = "handleFolderSelect") =>
    GridIs(selectedFolderId, folders)

\* handleNewFolder has stored the new folder as the selection, the folder
\* is empty and a scanned card is shown
NewFolderSelectedUnfiltered ==
  /\ cachedPlaylists # NoCache
  /\ last.op = "handleNewFolder" /\ last.result.success
  /\ selectedFolderId = last.result.folders[Len(last.result.folders)].id
  /\ \E i \in 1..Len(cachedPlaylists[1]) : displayOf(cachedPlaylists[1][i]) = ""

\* C38: addPlaylistToFolder for a folder id that the store does not have
\* leaves the playlist in no folder and the store with the folders it had,
\* their other playlists as they were.
C38_MissingTargetUnassigns ==
  (last.op = "addPlaylistToFolder" /\ ~hasKey(last.pre, last.folderId)) =>
    /\ Len(folders) = Len(last.pre)
    /\ \A i \in 1..Len(folders) :
         /\ folders[i].id = last.pre[i].id
         /\ folders[i].name = last.pre[i].name
         /\ last.playlistId \notin Range(folders[i].playlistIds)
         /\ folders[i].playlistIds =
              SelectSeq(last.pre[i].playlistIds, LAMBDA p : p # last.playlistId)

\* the playlist was in a folder, the target had been deleted, and the
\* playlist is now in no folder
C38_Witness ==
  /\ last.op = "addPlaylistToFolder"
  /\ ~hasKey(last.pre, last.folderId)
  /\ getFolderIdForPlaylist(last.playlistId, last.pre) # NULL
  /\ getFolderIdForPlaylist(last.playlistId, folders) = NULL
  /\ folders # <<>>

\* the counts of the first k folder entries of the menu, added up
RECURSIVE sumOfFolderCounts(_)
sumOfFolderCounts(k) ==
  IF k = 0 THEN 0
  ELSE getDropdownFolderCount(folders[k].id, folders) + sumOfFolderCounts(k - 1)

\* C39: the count of "All Playlists" is the count of "Unassigned" plus the
\* counts of the folders; every scanned playlist is in one folder at most,
\* and so counted once, under "Unassigned" or under its folder; no folder
\* lists a playlist twice.
C39_CountsPartition ==
  /\ getDropdownFolderCount(FOLDER_ID_ALL, folders) =
       getDropdownFolderCount(FOLDER_ID_UNASSIGNED, folders)
         + sumOfFolderCounts(Len(folders))
  /\ cachedPlaylists # NoCache =>
       \A i \in 1..Len(cachedPlaylists[1]) :
         Cardinality({k \in 1..Len(folders) :
                        cachedPlaylists[1][i].id \in Range(folders[k].playlistIds)}) <= 1
  /\ \A k \in 1..Len(folders) :
       \A m, n \in 1..Len(folders[k].playlistIds) :
         folders[k].playlistIds[m] = folders[k].playlistIds[n] => m = n

\* a playlist has been moved from one folder to another and the menu has been
\* rendered: a scanned playlist is counted under a folder, another under
\* "Unassigned"
C39_Witness ==
  /\ last.op = "foldersChanged"
  /\ last.mutation.op = "addPlaylistToFolder"
  /\ getFolderIdForPlaylist(last.mutation.playlistId, last.mutation.pre)
       \notin {NULL, last.mutation.folderId}
  /\ getDropdownFolderCount(last.mutation.folderId, folders) >= 1
  /\ getDropdownFolderCount(FOLDER_ID_UNASSIGNED, folders) >= 1
  /\ getDropdownFolderCount(FOLDER_ID_ALL, folders) >= 2

\* a folder lists a playlist that is not on the page, which is counted
\* nowhere
FolderCountBelowLength ==
  /\ cachedPlaylists # NoCache
  /\ \E k \in 1..Len(folders) :
       getDropdownFolderCount(folders[k].id, folders) < Len(folders[k].playlistIds)

\* ------------------------------------------------------------------------
\* Properties of the scan (specification SpecScan)
\* ------------------------------------------------------------------------
\* the nodes the scan looks at: the cards of the grid container when there
\* is one, the cards of the document otherwise
searchRootNodes == {n \in 1..Len(dom.cards) : dom.grid => dom.cards[n].inGrid}

\* C9: dedup.  In a scan result the ids are pairwise distinct; every id that
\* some scanned card yields has exactly one item; the item's element is the
\* first card, in document order, that yields the id, and its title is that
\* card's.
C9_Dedup ==
  cachedPlaylists # NoCache =>
    LET S == cachedPlaylists[1]
    IN  /\ \A i, j \in 1..Len(S) : i # j => S[i].id # S[j].id
        /\ \A n \in searchRootNodes :
             extractPlaylistId(dom.cards[n]) # NoId =>
               \E i \in 1..Len(S) : S[i].id = extractPlaylistId(dom.cards[n])
        /\ \A i \in 1..Len(S) :
             /\ S[i].element \in searchRootNodes
             /\ extractPlaylistId(dom.cards[S[i].element]) = S[i].id
             /\ \A n \in searchRootNodes :
                  n < S[i].element => extractPlaylistId(dom.cards[n]) # S[i].id
             /\ S[i].title =
                  IF dom.cards[S[i].element].title = NoTitle THEN UnknownPlaylist
                  ELSE trim(dom.cards[S[i].element].title)

\* two cards with different titles yield one id, and the scan has the item
\* of the first of them
C9_Witness ==
  /\ cachedPlaylists # NoCache
  /\ \E n, m \in searchRootNodes :
       /\ n < m
       /\ extractPlaylistId(dom.cards[n]) # NoId
       /\ extractPlaylistId(dom.cards[n]) = extractPlaylistId(dom.cards[m])
       /\ dom.cards[n].title # dom.cards[m].title
       /\ \E i \in 1..Len(cachedPlaylists[1]) :
            /\ cachedPlaylists[1][i].element = n
            /\ cachedPlaylists[1][i].title = trim(dom.cards[n].title)

\* ------------------------------------------------------------------------
\* Properties of the watcher (specification SpecWatcher)
\* ------------------------------------------------------------------------
\* C8 as the specification states it: the batches of a window whose
\* timeout has fired have caused exactly one rescan and refilter.
C8_ExactlyOneRescan ==
  window.state = "fired" => window.batches >= 1 /\ window.rescans = 1

\* C8, amended: debounce coalescing.  At most one debounce timeout is
\* pending.  The batches of one window, however many, cause one run of the
\* timeout handler when the timeout fires, and that run makes exactly one
\* rescan and refilter when isScrollingToLoad is false and none when it is
\* true; they cause no run and no rescan when stopPlaylistObserver cancels
\* the timeout.
C8_DebounceCoalescing ==
  /\ Cardinality(timers) <= 1
  /\ window.state = "fired" =>
       /\ window.batches >= 1
       /\ window.handlers = 1
       /\ window.rescans = (IF isScrollingToLoad THEN 0 ELSE 1)
       /\ window.skips = 1 - window.rescans
  /\ window.state = "stopped" =>
       /\ window.batches >= 1
       /\ window.handlers = 0
       /\ window.rescans = 0

\* the timeout of a window of several batches has fired and its handler has
\* rescanned once and filtered
C8_Witness ==
  /\ window.state = "fired"
  /\ window.batches >= 2
  /\ window.rescans = 1
  /\ last.op = "applyFolderFilter"
  /\ last.caller = "handlePlaylistMutations"

\* C29: at most one debounce timeout is pending, and it is the one whose
\* handle mutationDebounceTimer keeps; a mutation batch that the observer
\* delivers leaves pending the timeout it sets and no other, so that a
\* timeout that was pending is cancelled by it.
C29_OnePendingRescan ==
  /\ [](/\ Cardinality(timers) <= 1
        /\ \A t \in timers : t.id = mutationDebounceTimer)
  /\ [][nextTimer' # nextTimer =>
          /\ timers' = {[id |-> nextTimer, after |-> flagTimers]}
          /\ mutationDebounceTimer' = nextTimer
          /\ timers' \cap timers = {}]_vars

\* a second batch has arrived while the timeout of the first was pending,
\* and one timeout is pending
C29_Witness ==
  /\ window.state = "open"
  /\ window.batches >= 2
  /\ Cardinality(timers) = 1

\* ------------------------------------------------------------------------
\* Properties of the page without its storage (specification SpecDegraded)
\* ------------------------------------------------------------------------
\* C18: while chrome.storage is unavailable no step writes the stored
\* folders or the stored selection, and every operation that completes has
\* read the empty folder map and no selection: the filter is applied over no
\* folders and ends on "all" or "unassigned", a folder is created whenever
\* its name is not blank, a deletion or an assignment starts from the empty
\* map and leaves the modal with the empty map.
C18_StoreUnavailable ==
  [][~storageAvailable =>
       /\ folders' = folders
       /\ selectedFolderId' = selectedFolderId
       /\ getFolders' = <<>>
       /\ getSelectedFolderId' = NULL
       /\ (last'.op = "applyFolderFilter" /\ last' # last) =>
            /\ last'.folders = <<>>
            /\ last'.effective \in {FOLDER_ID_ALL, FOLDER_ID_UNASSIGNED}
       /\ (last'.op = "handleNewFolder" /\ last' # last) =>
            (last'.result.success <=> trim(last'.name) # <<>>)
       /\ (last'.op = "deleteFolder" /\ last' # last) =>
            /\ last'.pre = <<>>
            /\ last'.preSelected = NULL
            /\ cachedFolders' = <<>>
       /\ (last'.op = "addPlaylistToFolder" /\ last' # last) =>
            /\ last'.pre = <<>>
            /\ cachedFolders' = <<>>
    ]_vars

\* a folder is created under a name that a stored folder bears, the storage
\* being unavailable, and the stored folders and selection are as they were
C18_Witness ==
  /\ ~storageAvailable
  /\ last.op = "handleNewFolder"
  /\ last.result.success
  /\ folderNameExists(folders, trim(last.name))
  /\ selectedFolderId # NULL

\* C36: when createFolder has returned success, called by handleNewFolder,
\* the stored folders hold the folder it has returned.
C36_CreatedFolderIsStored ==
  (last.op = "handleNewFolder" /\ last.result.success) =>
    /\ hasKey(folders, generateId(last.result.n - 1))
    /\ hasKey(last.result.folders, generateId(last.result.n - 1))

\* the same while chrome.storage is available
CreatedFolderIsStoredWhenAvailable ==
  (last.op = "handleNewFolder" /\ last.result.success /\ storageAvailable) =>
    hasKey(folders, generateId(last.result.n - 1))

\* createFolder has returned success for a new name while the storage was
\* unavailable, and no stored folder bears the name
CreatedFolderNeverWritten ==
  /\ ~storageAvailable
  /\ last.op = "handleNewFolder"
  /\ last.result.success
  /\ ~folderNameExists(folders, trim(last.name))

\* ------------------------------------------------------------------------
\* Properties of the scroll that loads (specification SpecScroll)
\* ------------------------------------------------------------------------
\* C19: scrollToLoadAllPlaylists stops as soon as the number of cards has
\* stayed the same for STABLE_COUNT_THRESHOLD steps in a row or
\* MAX_SCROLL_ATTEMPTS steps are done: while it sleeps for a further step
\* neither has happened, and when it has returned from the loop one of them
\* has just happened.
C19_LazyLoadTermination ==
  /\ scrolling # NotScrolling =>
       /\ scrolling[1].attempts < MAX_SCROLL_ATTEMPTS
       /\ scrolling[1].unchanged < STABLE_COUNT_THRESHOLD
  /\ (last.op = "scrollToLoadAllPlaylists" /\ last.attempts > 0) =>
       \/ last.unchanged = STABLE_COUNT_THRESHOLD
       \/ last.attempts = MAX_SCROLL_ATTEMPTS

\* C19_LazyLoadTermination holds of the documents whose cards are all in
\* the grid; a card outside it costs one step more
ScrollStopsCountingTheGrid ==
  /\ cardCount(dom, TRUE) = cardCount(dom, FALSE) => C19_LazyLoadTermination
  /\ scrolling # NotScrolling =>
       scrolling[1].unchanged <= STABLE_COUNT_THRESHOLD
  /\ last.op = "scrollToLoadAllPlaylists" =>
       last.unchanged <= STABLE_COUNT_THRESHOLD + 1

\* the loop never takes more than MAX_SCROLL_ATTEMPTS steps, and returns
\* before that only on STABLE_COUNT_THRESHOLD equal counts of its own
ScrollStepsBounded ==
  /\ scrolling # NotScrolling => loopContinues(scrolling[1])
  /\ last.op = "scrollToLoadAllPlaylists" => last.attempts <= MAX_SCROLL_ATTEMPTS

\* under SpecScrollFair a started scroll returns, whatever the host loads
ScrollTerminates == (scrolling # NotScrolling) ~> (scrolling = NotScrolling)

\* the host has loaded a card in every step, up to the last one
ScrollHostNeverSettles ==
  /\ last.op = "scrollToLoadAllPlaylists"
  /\ last.attempts = MAX_SCROLL_ATTEMPTS
  /\ last.result >= MAX_SCROLL_ATTEMPTS
  /\ last.unchanged = 0

\* C20: when scrollToLoadAllPlaylists has returned, the window and the
\* container are scrolled to where they were when it was called.
C20_LazyLoadCleanup ==
  last.op = "scrollToLoadAllPlaylists" => scrollPos = last.start

\* ------------------------------------------------------------------------
\* Properties of the content script, an await at a time (specification
\* SpecAsync)
\* ------------------------------------------------------------------------
\* C21: once the observer has delivered a mutation batch, and until the
\* rescan of its debounce timeout, no filter pass sets the display of the
\* cards through pairings of playlist and element other than those of the
\* document as it is: a pass that runs while the timeout is pending has
\* playlists that a scan of the document would give.
C21_StalePairingsUnused ==
  (last.op = "applyFolderFilter" /\ timers # {}) =>
    last.playlists = scrapeAllPlaylists(dom)

\* C22: a filter pass sets the display of the cards of the scan that the
\* cache holds, the most recent one: no pass writes through playlists that
\* a newer scan has replaced in the cache since the pass took them.
C22_FilterUsesLatestScan ==
  (last.op = "applyFolderFilter" /\ cachedPlaylists # NoCache) =>
    last.playlists = cachedPlaylists[1]

\* C23: at most one call of loadAndScrapeAllPlaylists is in progress.
C23_OneLoadInProgress == Cardinality(loadsInProgress) <= 1

\* C24: a debounce timeout that fires while a call of
\* loadAndScrapeAllPlaylists is in progress returns at once: it does not
\* clear the cache, scan or filter.
C24_NoRescanWhileLoading ==
  (last.op = "handlePlaylistMutations" /\ last.running > 0) => last.skipped

\* C25: on a page other than the playlists page, once init() has run for
\* the navigation, no observer is attached and no debounce timeout is
\* pending.
C25_WatcherOnPlaylistsPageOnly ==
  location # "playlists" => ~playlistObserver /\ timers = {}

\* C26: init() leaves the cache empty whenever it runs for a navigation,
\* and on a page other than the playlists page the cache is filled only by
\* a scan of a load that was started on the playlists page.
C26_NavigationInvalidatesCache ==
  /\ last.op = "init" => cachedPlaylists = NoCache
  /\ (last.op = "loadAndScrapeAllPlaylists" /\ last.location # "playlists") =>
       last.started = "playlists"
  /\ (last.op = "handlePlaylistMutations" /\ last.location # "playlists") =>
       last.skipped

\* the calls of the debounce callback that C28 orders
rescanSteps ==
  {"clearPlaylistCache", "scrapeAllPlaylists", "applyFolderFilter",
   "refreshDropdownMenu"}

isRescanStep(s) == s \in rescanSteps

C33_RacingPassesConverge ==
  (/\ tasks = <<>>
   /\ last # Idle
   /\ last.op \in {"applyFolderFilter", "refreshDropdownMenu"}
   /\ location = "playlists"
   /\ cachedPlaylists # NoCache) =>
    GridIs(selectedFolderId, folders)

\* ------------------------------------------------------------------------
\* Properties of the injection of the dropdown (specification SpecInject)
\* ------------------------------------------------------------------------
\* C27: the document never has more than one dropdown, and one call of
\* injectDropdown at most is suspended in createDropdown, whatever the
\* order in which the calls of init(), their callbacks and the retries run.
C27_OneDropdown ==
  /\ dropdowns <= 1
  /\ Cardinality({i \in 1..Len(tasks) : tasks[i].pc = "createDropdown"}) <= 1
  /\ last.op = "injectDropdown" => (last.inserted = 1 <=> last.found = 0 /\ dropdowns = 1)

\* the dropdown is in the second chip bar of the host, injected there by a
\* later call of init(), while a retry of the first call is still pending
C27_Witness ==
  /\ dropdowns = 1
  /\ chipBar = 2
  /\ \E i \in 1..Len(tasks) : tasks[i].pc = "retry"


\* C34: once injectDropdown has put the dropdown into the chip bar of the
\* playlists page, a pass of initializeFilterOnLoad ends later on and leaves
\* the watcher started.
C34_InjectionLeadsToFilter ==
  (last.op = "injectDropdown" /\ last.inserted = 1 /\ location = "playlists")
    ~> (/\ last.op = "applyFolderFilter"
        /\ last.caller = "initializeFilterOnLoad"
        /\ playlistObserver)

\* the same of the injection by the callback of init itself
InitInjectionLeadsToFilter ==
  (/\ last.op = "injectDropdown" /\ last.inserted = 1 /\ ~last.retry
   /\ location = "playlists")
    ~> (/\ last.op = "applyFolderFilter"
        /\ last.caller = "initializeFilterOnLoad"
        /\ playlistObserver)

\* a retry has injected the dropdown, no callback is pending, and neither
\* a scan nor the watcher has been started
RetryInjectedNoFilter ==
  /\ last.op = "injectDropdown" /\ last.inserted = 1 /\ last.retry
  /\ location = "playlists"
  /\ tasks = <<>>
  /\ loading = NotLoading
  /\ cachedPlaylists = NoCache
  /\ ~playlistObserver

\* ------------------------------------------------------------------------
\* Properties of the assignments of the modal (specification SpecOverlap)
\* ------------------------------------------------------------------------
\* C30: the mutations of the modal do not overlap: one mutation at most has
\* read the folders without having written them, and the folders that a
\* mutation writes are made from the folders that the store holds at that
\* time, so that no write of another mutation is lost.
C30_SerializedMutations ==
  /\ Cardinality(readNotWritten) <= 1
  /\ last.op = "saveFolders" => last.read = last.stored


\* ------------------------------------------------------------------------
\* Properties of the extraction of an id (specification SpecExtract)
\* ------------------------------------------------------------------------
\* C31: extractPlaylistId returns the id that the class of the card gives
\* when there is one and it has an allowed prefix, otherwise the id that
\* the link gives when there is one and it has an allowed prefix, and
\* otherwise no id; the call changes nothing.
C31_ExtractionOrder ==
  /\ [](last.op = "extractPlaylistId" =>
          LET classId == classIdOf(last.node.className)
              hrefId == hrefIdOf(last.node.href)
              classOk == classId # NoId /\ isUserPlaylistId(classId)
              hrefOk == hrefId # NoId /\ isUserPlaylistId(hrefId)
          IN  /\ classOk => last.id = classId
              /\ (~classOk /\ hrefOk) => last.id = hrefId
              /\ (~classOk /\ ~hrefOk) => last.id = NoId
              /\ classId # NoId => Range(classId) \subseteq IdChars
              /\ hrefId # NoId => Range(hrefId) \subseteq IdChars)
  /\ [][last'.op = "extractPlaylistId" =>
          UNCHANGED <<storeVars, pageVars, watchVars, scrollVars, asyncVars>>]_vars

\* the class gives the id of a channel's uploads and the link gives a
\* playlist id, which is returned
C31_Witness ==
  /\ last.op = "extractPlaylistId"
  /\ classIdOf(last.node.className) = UU5
  /\ hrefIdOf(last.node.href) = PL2
  /\ last.id = PL2

\* both the class and the link give an allowed id, and they differ
ExtractBothAllowed ==
  /\ last.op = "extractPlaylistId"
  /\ classIdOf(last.node.className) = OL9
  /\ hrefIdOf(last.node.href) = PL1
  /\ last.id = OL9

\* ------------------------------------------------------------------------
\* Properties of the scan of the modal (specification SpecModal)
\* ------------------------------------------------------------------------
\* C37: the scan of the modal and the scan of the content script find the
\* same ids in the same order in every document.
C37_ScansAgree ==
  last.op = "scrapePlaylistsForModal" =>
    idsOf(last.playlists) = idsOf(scrapeAllPlaylists(dom))

\* the two agree on the documents whose cards have no class id of another
\* kind
ScansAgreeOnUserClassIds ==
  (/\ last.op = "scrapePlaylistsForModal"
   /\ \A i \in 1..Len(dom.cards) :
        dom.cards[i].classId = NoId \/ isUserPlaylistId(dom.cards[i].classId)) =>
    idsOf(last.playlists) = idsOf(scrapeAllPlaylists(dom))

\* the modal has passed over a card that the content script has scanned
\* under the id of its link
ModalMissesLinkId ==
  /\ last.op = "scrapePlaylistsForModal"
  /\ last.playlists = <<>>
  /\ idsOf(scrapeAllPlaylists(dom)) = <<PL2>>
  /\ cachedPlaylists # NoCache

\* ------------------------------------------------------------------------
\* Properties of export and import (specification SpecRoundTrip)
\* ------------------------------------------------------------------------
\* folders a and b have the same ids and names, and the same playlists up
\* to their order
sameFolders(a, b) ==
  /\ Len(a) = Len(b)
  /\ \A i \in 1..Len(a) :
       /\ a[i].id = b[i].id
       /\ a[i].name = b[i].name
       /\ Range(a[i].playlistIds) = Range(b[i].playlistIds)

\* C40: the import of buildExportData of the store into the store leaves
\* every folder with its id, its name and its playlists, and a second import
\* of the same data leaves them again.
C40_ExportImportRoundTrip ==
  (last.op = "importFolders" /\ last.data = buildExportData(last.pre)) =>
    /\ sameFolders(folders, last.pre)
    /\ sameFolders(importFolders(folders, last.data, nextId).folders, folders)

\* the same of the stores whose names differ case-insensitively
RoundTripOfUniqueNames ==
  (/\ last.op = "importFolders" /\ last.data = buildExportData(last.pre)
   /\ \A i, j \in 1..Len(last.pre) :
        i # j => toLowerCase(last.pre[i].name) # toLowerCase(last.pre[j].name)) =>
    /\ sameFolders(folders, last.pre)
    /\ sameFolders(importFolders(folders, last.data, nextId).folders, folders)

\* the export of two folders that have playlists has been imported and has
\* left them as they were
RoundTripOfTwoFolders ==
  /\ last.op = "importFolders" /\ last.data = buildExportData(last.pre)
  /\ Len(last.pre) >= 2
  /\ \A i \in 1..Len(last.pre) : last.pre[i].playlistIds # <<>>
  /\ localeCompareLess(toLowerCase(last.pre[2].name), toLowerCase(last.pre[1].name))
  /\ sameFolders(folders, last.pre)

====
